---- MODULE Spec2Model ----
(***************************************************************************)
(* A model of the ioGame server (Ian0336/ioGame, backend/): the world and  *)
(* its three per-tick subsystems (game.go), the Hub (hub.go) and the       *)
(* per-connection reader and writer (client.go).                           *)
(*                                                                         *)
(* Numbers.  Positions are fixed-point: one world unit is PosScale model   *)
(* units, so that the per-tick steps of a player (100/60) and of a monster *)
(* (30/60) are whole numbers.  Angles are whole numbers of 1/AngleScale    *)
(* radian; math.Cos and math.Sin are the tables CosTab and SinTab, scaled  *)
(* by TrigScale.  A rand.Float64() draw r is the whole number r*RandDen.   *)
(* Wall-clock time is in milliseconds.                                     *)
(*                                                                         *)
(* Specifications.  Spec interleaves Game.run, the Hub, the readers and    *)
(* the writers step by step, a tick's channel sends one at a time.         *)
(* FairSpec is Spec with the scheduling of Game.run and the Hub.           *)
(* WorldSpec takes every operation on the world as one step and follows    *)
(* the world over long runs of ticks.  FrameSpec takes every inbound frame *)
(* as one step, between ticks.  DuelSpec is the world with two players     *)
(* joining at any two ticks.  FaultSpec is Spec with every task scheduled. *)
(* CollideSpec applies the collision subsystem once to worlds drawn from   *)
(* a set of placements.  UpkeepSpec applies the Player subsystem and then  *)
(* the Monster subsystem once to worlds drawn from a set of populations.   *)
(***************************************************************************)
EXTENDS Integers, Sequences, FiniteSets, TLC

VARIABLES
    Players,         \* Game.Players: sequence of player records
    Monsters,        \* Game.Monsters
    HealingPotions,  \* Game.HealingPotions
    Experiences,     \* Game.Experiences
    usedIDs,         \* Game.usedIDs: class -> set of ids
    allocs,          \* number of Player and Monster objects allocated so far (an object's address)
    mu,              \* Game.mu: "free", or "sim" while Game.run holds it (a reader holds it within one step)
    now,             \* the wall clock, ms
    tick,            \* number of ticks started by Game.run
    simPc,           \* Game.run: "idle", "tick" (systems running), "bcast"
    outbox,          \* rest of the running tick: its sends and back-reference writes, in program order
    snapshot,        \* the gameState message Game.run is about to hand to the Hub
    clients,         \* Hub.clients
    send,            \* Client.send: the buffered contents of each egress channel
    closed,          \* whether close(client.send) has happened
    cplayer,         \* Client.player: a reference to a Player object, or NoPlayer
    rpc,             \* readPump's position, per connection
    rloc,            \* readPump's locals (the frame being handled, the id it read)
    wpc,             \* writePump's position, per connection
    socket,          \* the messages writePump has written to the socket, in order
    crashed,         \* the panic that ended the process, or NoPanic
    hist             \* history of the run (bookkeeping for the properties)

worldVars == <<Players, Monsters, HealingPotions, Experiences, usedIDs, allocs>>
simVars   == <<mu, now, tick, simPc, outbox, snapshot>>
netVars   == <<clients, send, closed, cplayer, rpc, rloc, wpc, socket>>
vars      == <<worldVars, simVars, netVars, crashed, hist>>

---------------------------------------------------------------------------
(* Bounds of the model *)

NumClients == 2      \* connections served
MaxTicks   == 2      \* ticks Game.run starts
SendCap    == 2      \* capacity of Client.send (256 in serveWs, scaled down)
MaxJoins   == 1      \* "join" frames that add a player
MaxDirs    == 1      \* "direction" frames handled
MaxFaults  == 1      \* read errors and write errors of the connections
MaxWorldTicks == 45  \* ticks of a run of WorldSpec
MaxJoinTick   == 1   \* ticks a run of WorldSpec may start before a join
MaxID      == 64     \* size of the id space of generateID (10^9 in the code, scaled down)
MaxFrames     == 3   \* inbound frames handled in a run of FrameSpec
MaxFrameTick  == 1   \* ticks a run of FrameSpec may start before its last frame
MaxFrameTicks == 57  \* ticks of a run of FrameSpec
MaxDuelTicks    == 18  \* ticks of a run of DuelSpec
MaxDuelJoinTick == 16  \* ticks a run of DuelSpec may start before a join

(* Program constants *)

weaponHitCooldown == 1000
playerMasterRatio == 2
baseMonsterAmount == 10
maxMonsterAmount  == 60
gameMinX == 0
gameMinY == 0
gameMaxX == 1200
gameMaxY == 800
fps      == 60
orbitRadius == 30
maxMessageSize == 512

(* Representation *)

Nil        == 0
PosScale   == 6
AngleScale == 120
TrigScale  == 1000
RandDen    == 100
Pi         == 377
TwoPi      == 754

Clients == 1..NumClients
IdSpace == 1..MaxID
Classes == {"player", "monster", "potion", "weapon", "experience"}

CosTab ==
   <<
      1000, 1000, 1000, 1000, 999, 999, 999, 998, 998, 997, 997, 996, 995, 994, 993, 992,
      991, 990, 989, 987, 986, 985, 983, 982, 980, 978, 977, 975, 973, 971, 969, 967,
      965, 962, 960, 958, 955, 953, 950, 948, 945, 942, 939, 936, 934, 931, 927, 924,
      921, 918, 914, 911, 908, 904, 900, 897, 893, 889, 885, 882, 878, 874, 869, 865,
      861, 857, 853, 848, 844, 839, 835, 830, 825, 821, 816, 811, 806, 801, 796, 791,
      786, 781, 775, 770, 765, 759, 754, 748, 743, 737, 732, 726, 720, 714, 709, 703,
      697, 691, 685, 679, 672, 666, 660, 654, 647, 641, 635, 628, 622, 615, 608, 602,
      595, 588, 582, 575, 568, 561, 554, 547, 540, 533, 526, 519, 512, 505, 498, 490,
      483, 476, 468, 461, 454, 446, 439, 431, 424, 416, 408, 401, 393, 386, 378, 370,
      362, 355, 347, 339, 331, 323, 315, 307, 299, 292, 284, 276, 267, 259, 251, 243,
      235, 227, 219, 211, 203, 195, 186, 178, 170, 162, 154, 145, 137, 129, 121, 112,
      104, 96, 87, 79, 71, 62, 54, 46, 37, 29, 21, 12, 4, -4, -13, -21,
      -29, -38, -46, -54, -62, -71, -79, -87, -96, -104, -112, -121, -129, -137, -145, -154,
      -162, -170, -178, -186, -195, -203, -211, -219, -227, -235, -243, -251, -260, -268, -276, -284,
      -292, -300, -307, -315, -323, -331, -339, -347, -355, -362, -370, -378, -386, -393, -401, -409,
      -416, -424, -431, -439, -446, -454, -461, -468, -476, -483, -490, -498, -505, -512, -519, -526,
      -533, -540, -547, -554, -561, -568, -575, -582, -589, -595, -602, -609, -615, -622, -628, -635,
      -641, -647, -654, -660, -666, -672, -679, -685, -691, -697, -703, -709, -714, -720, -726, -732,
      -737, -743, -749, -754, -759, -765, -770, -776, -781, -786, -791, -796, -801, -806, -811, -816,
      -821, -825, -830, -835, -839, -844, -848, -853, -857, -861, -865, -870, -874, -878, -882, -885,
      -889, -893, -897, -900, -904, -908, -911, -914, -918, -921, -924, -927, -931, -934, -937, -939,
      -942, -945, -948, -950, -953, -955, -958, -960, -962, -965, -967, -969, -971, -973, -975, -977,
      -978, -980, -982, -983, -985, -986, -988, -989, -990, -991, -992, -993, -994, -995, -996, -997,
      -997, -998, -998, -999, -999, -999, -1000, -1000, -1000, -1000, -1000, -1000, -1000, -999, -999, -999,
      -998, -998, -997, -997, -996, -995, -994, -993, -992, -991, -990, -989, -987, -986, -985, -983,
      -982, -980, -978, -977, -975, -973, -971, -969, -967, -965, -962, -960, -958, -955, -953, -950,
      -948, -945, -942, -939, -936, -934, -930, -927, -924, -921, -918, -914, -911, -908, -904, -900,
      -897, -893, -889, -885, -882, -878, -874, -869, -865, -861, -857, -852, -848, -844, -839, -835,
      -830, -825, -821, -816, -811, -806, -801, -796, -791, -786, -781, -775, -770, -765, -759, -754,
      -748, -743, -737, -732, -726, -720, -714, -709, -703, -697, -691, -685, -679, -672, -666, -660,
      -654, -647, -641, -635, -628, -622, -615, -608, -602, -595, -588, -582, -575, -568, -561, -554,
      -547, -540, -533, -526, -519, -512, -505, -498, -490, -483, -476, -468, -461, -454, -446, -439,
      -431, -424, -416, -408, -401, -393, -385, -378, -370, -362, -355, -347, -339, -331, -323, -315,
      -307, -299, -291, -283, -275, -267, -259, -251, -243, -235, -227, -219, -211, -203, -194, -186,
      -178, -170, -162, -153, -145, -137, -129, -120, -112, -104, -96, -87, -79, -71, -62, -54,
      -46, -37, -29, -21, -12, -4, 4, 13, 21, 29, 38, 46, 54, 63, 71, 79,
      87, 96, 104, 112, 121, 129, 137, 145, 154, 162, 170, 178, 187, 195, 203, 211,
      219, 227, 235, 243, 252, 260, 268, 276, 284, 292, 300, 308, 315, 323, 331, 339,
      347, 355, 362, 370, 378, 386, 393, 401, 409, 416, 424, 431, 439, 446, 454, 461,
      469, 476, 483, 490, 498, 505, 512, 519, 526, 533, 540, 547, 554, 561, 568, 575,
      582, 589, 595, 602, 609, 615, 622, 628, 635, 641, 647, 654, 660, 666, 673, 679,
      685, 691, 697, 703, 709, 715, 720, 726, 732, 737, 743, 749, 754, 760, 765, 770,
      776, 781, 786, 791, 796, 801, 806, 811, 816, 821, 825, 830, 835, 839, 844, 848,
      853, 857, 861, 865, 870, 874, 878, 882, 886, 889, 893, 897, 901, 904, 908, 911,
      915, 918, 921, 924, 927, 931, 934, 937, 939, 942, 945, 948, 950, 953, 955, 958,
      960, 962, 965, 967, 969, 971, 973, 975, 977, 978, 980, 982, 983, 985, 986, 988,
      989, 990, 991, 992, 993, 994, 995, 996, 997, 997, 998, 998, 999, 999, 999, 1000,
      1000, 1000
   >>

SinTab ==
   <<
      0, 8, 17, 25, 33, 42, 50, 58, 67, 75, 83, 92, 100, 108, 116, 125,
      133, 141, 149, 158, 166, 174, 182, 190, 199, 207, 215, 223, 231, 239, 247, 255,
      264, 272, 280, 288, 296, 303, 311, 319, 327, 335, 343, 351, 359, 366, 374, 382,
      389, 397, 405, 412, 420, 427, 435, 442, 450, 457, 465, 472, 479, 487, 494, 501,
      508, 516, 523, 530, 537, 544, 551, 558, 565, 572, 578, 585, 592, 599, 605, 612,
      618, 625, 631, 638, 644, 651, 657, 663, 669, 676, 682, 688, 694, 700, 706, 712,
      717, 723, 729, 735, 740, 746, 751, 757, 762, 768, 773, 778, 783, 788, 794, 799,
      804, 809, 813, 818, 823, 828, 832, 837, 841, 846, 850, 855, 859, 863, 867, 872,
      876, 880, 884, 887, 891, 895, 899, 902, 906, 909, 913, 916, 919, 923, 926, 929,
      932, 935, 938, 941, 944, 946, 949, 952, 954, 957, 959, 961, 964, 966, 968, 970,
      972, 974, 976, 978, 979, 981, 982, 984, 985, 987, 988, 989, 991, 992, 993, 994,
      995, 995, 996, 997, 997, 998, 999, 999, 999, 1000, 1000, 1000, 1000, 1000, 1000, 1000,
      1000, 999, 999, 999, 998, 997, 997, 996, 995, 995, 994, 993, 992, 991, 989, 988,
      987, 985, 984, 982, 981, 979, 977, 976, 974, 972, 970, 968, 966, 964, 961, 959,
      957, 954, 952, 949, 946, 944, 941, 938, 935, 932, 929, 926, 923, 919, 916, 913,
      909, 906, 902, 899, 895, 891, 887, 883, 880, 876, 872, 867, 863, 859, 855, 850,
      846, 841, 837, 832, 828, 823, 818, 813, 808, 804, 799, 794, 788, 783, 778, 773,
      767, 762, 757, 751, 746, 740, 734, 729, 723, 717, 711, 706, 700, 694, 688, 682,
      675, 669, 663, 657, 651, 644, 638, 631, 625, 618, 612, 605, 598, 592, 585, 578,
      571, 565, 558, 551, 544, 537, 530, 523, 516, 508, 501, 494, 487, 479, 472, 465,
      457, 450, 442, 435, 427, 420, 412, 405, 397, 389, 382, 374, 366, 358, 351, 343,
      335, 327, 319, 311, 303, 295, 287, 279, 271, 263, 255, 247, 239, 231, 223, 215,
      207, 199, 190, 182, 174, 166, 158, 149, 141, 133, 125, 116, 108, 100, 91, 83,
      75, 67, 58, 50, 42, 33, 25, 17, 8, 0, -8, -17, -25, -33, -42, -50,
      -58, -67, -75, -83, -92, -100, -108, -116, -125, -133, -141, -150, -158, -166, -174, -182,
      -191, -199, -207, -215, -223, -231, -239, -247, -256, -264, -272, -280, -288, -296, -304, -311,
      -319, -327, -335, -343, -351, -359, -366, -374, -382, -389, -397, -405, -412, -420, -428, -435,
      -443, -450, -457, -465, -472, -479, -487, -494, -501, -508, -516, -523, -530, -537, -544, -551,
      -558, -565, -572, -578, -585, -592, -599, -605, -612, -618, -625, -631, -638, -644, -651, -657,
      -663, -669, -676, -682, -688, -694, -700, -706, -712, -717, -723, -729, -735, -740, -746, -751,
      -757, -762, -768, -773, -778, -783, -789, -794, -799, -804, -809, -813, -818, -823, -828, -832,
      -837, -842, -846, -850, -855, -859, -863, -867, -872, -876, -880, -884, -887, -891, -895, -899,
      -902, -906, -909, -913, -916, -919, -923, -926, -929, -932, -935, -938, -941, -944, -946, -949,
      -952, -954, -957, -959, -961, -964, -966, -968, -970, -972, -974, -976, -978, -979, -981, -982,
      -984, -985, -987, -988, -989, -991, -992, -993, -994, -995, -995, -996, -997, -998, -998, -999,
      -999, -999, -1000, -1000, -1000, -1000, -1000, -1000, -1000, -1000, -999, -999, -999, -998, -997, -997,
      -996, -995, -995, -994, -993, -992, -991, -989, -988, -987, -985, -984, -982, -981, -979, -977,
      -976, -974, -972, -970, -968, -966, -964, -961, -959, -957, -954, -952, -949, -946, -944, -941,
      -938, -935, -932, -929, -926, -923, -919, -916, -913, -909, -906, -902, -899, -895, -891, -887,
      -883, -880, -876, -871, -867, -863, -859, -855, -850, -846, -841, -837, -832, -828, -823, -818,
      -813, -808, -804, -799, -793, -788, -783, -778, -773, -767, -762, -757, -751, -746, -740, -734,
      -729, -723, -717, -711, -706, -700, -694, -688, -682, -675, -669, -663, -657, -650, -644, -638,
      -631, -625, -618, -612, -605, -598, -592, -585, -578, -571, -565, -558, -551, -544, -537, -530,
      -523, -515, -508, -501, -494, -487, -479, -472, -465, -457, -450, -442, -435, -427, -420, -412,
      -405, -397, -389, -382, -374, -366, -358, -351, -343, -335, -327, -319, -311, -303, -295, -287,
      -279, -271, -263, -255, -247, -239, -231, -223, -215, -207, -199, -190, -182, -174, -166, -158,
      -149, -141, -133, -125, -116, -108, -100, -91, -83, -75, -66, -58, -50, -42, -33, -25,
      -17, -8
   >>

---------------------------------------------------------------------------
(* Arithmetic *)

RoundDiv(a, b) == (2 * a + b) \div (2 * b)

Cos(a) == CosTab[(a % TwoPi) + 1]
Sin(a) == SinTab[(a % TwoPi) + 1]

ArenaMinX == gameMinX * PosScale
ArenaMinY == gameMinY * PosScale
ArenaMaxX == gameMaxX * PosScale
ArenaMaxY == gameMaxY * PosScale

\* cos(direction) * speed * deltaTime, deltaTime = 1/fps
MoveDelta(trig, speed) == RoundDiv(trig * speed * PosScale, TrigScale * fps)

\* WeaponRotationSpeed * deltaTime, in angle units
RotationDelta(speed) == (speed * AngleScale) \div fps

---------------------------------------------------------------------------
(* Entity.CheckCollision *)

CheckCollision(e, other) ==
    LET x1 == e.X - (e.Width \div 2)
        y1 == e.Y - (e.Height \div 2)
        x2 == other.X - (other.Width \div 2)
        y2 == other.Y - (other.Height \div 2)
    IN  ~ (\/ x1 > x2 + other.Width
           \/ x1 + e.Width < x2
           \/ y1 > y2 + other.Height
           \/ y1 + e.Height < y2)

---------------------------------------------------------------------------
(* HealthComponent *)

\* a TakeDamage that does not stop at 0
TakeDamageUnclamped(h, damage) == [h EXCEPT !.Health = @ - damage]

\* a CheckHitCooldown that compares with half the cooldown
CheckHitCooldownHalved(h, weaponID, t) ==
    \/ weaponID \notin DOMAIN h.lastHitById
    \/ 2 * (t - h.lastHitById[weaponID]) >= weaponHitCooldown

TakeDamage(h, damage) ==
    [h EXCEPT !.Health = IF @ - damage < 0 THEN 0 ELSE @ - damage]

\* the amount Heal returns
HealedAmount(h, amount) ==
    IF h.Health + amount > h.MaxHealth THEN h.MaxHealth - h.Health ELSE amount

Heal(h, amount) ==
    [h EXCEPT !.Health = IF @ + amount > h.MaxHealth THEN h.MaxHealth ELSE @ + amount]

IsDead(h) == h.Health <= 0

\* the test of CheckHitCooldown at wall-clock time t
CheckHitCooldown(h, weaponID, t) ==
    \/ weaponID \notin DOMAIN h.lastHitById
    \/ t - h.lastHitById[weaponID] >= weaponHitCooldown

\* h.lastHitById[weaponID] = time.Now(), done when the test passes
RecordHit(h, weaponID, t) ==
    [h EXCEPT !.lastHitById = (weaponID :> t) @@ @]

---------------------------------------------------------------------------
(* The world as a value threaded through one operation.  Besides the Game  *)
(* fields it carries the operation's inputs and outputs:                   *)
(*   rnd, rk  the math/rand draws of the operation (rnd, cyclically) and   *)
(*            how many were taken                                          *)
(*   nano     time.Now().UnixNano() % 10^9 as seen by generateID           *)
(*   t        time.Now() as seen by CheckHitCooldown                       *)
(*   id       the id generateID returned last                              *)
(*   ptr      the number of Player and Monster objects allocated           *)
(*   weapon   the Weapon newWeapon returned last                           *)
(*   tick     the number of the running tick (carried by the messages)     *)
(*   out      sends into egress channels and writes of Client.player,      *)
(*            in program order                                             *)
(*   log      damage applied: source id, class of the source, target object *)

Rnd(W) == W.rnd[(W.rk % Len(W.rnd)) + 1]
Adv(W) == [W EXCEPT !.rk = @ + 1]

\* rand.Intn(n) of the next draw
Intn(W, n) == (Rnd(W) * n) \div RandDen

\* first id not in S met from candidate k on (the loop of generateID)
FirstFree(S, k) ==
    LET d == CHOOSE d \in 0..(MaxID - 1) :
                 /\ ((k + d) % MaxID) + 1 \notin S
                 /\ \A e \in 0..(d - 1) : ((k + e) % MaxID) + 1 \in S
    IN  ((k + d) % MaxID) + 1

generateID(W, entityType) ==
    LET id == FirstFree(W.usedIDs[entityType], W.nano)
    IN  [W EXCEPT !.usedIDs[entityType] = @ \cup {id}, !.id = id, !.nano = @ + 1]

releaseID(W, entityType, id) ==
    [W EXCEPT !.usedIDs[entityType] = @ \ {id}]

\* client.send <- m, performed by the simulation
Emit(W, c, m) == [W EXCEPT !.out = Append(@, [kind |-> "send", c |-> c, m |-> m])]

\* player.Client.player = nil
ClearRef(W, c) == [W EXCEPT !.out = Append(@, [kind |-> "clear", c |-> c])]

---------------------------------------------------------------------------
(* Constructors *)

\* a newWeapon that numbers the weapon after its owner
newWeaponOwnerNumbered(W, owner) ==
    [W EXCEPT !.weapon =
        [ID |-> owner.ID, X |-> owner.X, Y |-> owner.Y,
         Width |-> 10 * PosScale, Height |-> 20 * PosScale, OwnerID |-> owner.ID]]

newWeapon(W, owner) ==
    LET W1 == generateID(W, "weapon")
    IN  [W1 EXCEPT !.weapon =
            [ID |-> W1.id, X |-> owner.X, Y |-> owner.Y,
             Width |-> 10 * PosScale, Height |-> 20 * PosScale, OwnerID |-> owner.ID]]

addNewPlayer(W, client) ==
    LET W1 == generateID(W, "player")
        player == [ptr |-> W1.ptr + 1,
                   ID |-> W1.id, X |-> 100 * PosScale, Y |-> 100 * PosScale,
                   Width |-> 10 * PosScale, Height |-> 20 * PosScale,
                   Health |-> 100, MaxHealth |-> 100, lastHitById |-> <<>>,
                   Experience |-> 0, Level |-> 1,
                   Speed |-> 100, Direction |-> 0,
                   Damage |-> 10,
                   WeaponRotationAngle |-> 0, WeaponRotationSpeed |-> 1,
                   Client |-> client, Weapons |-> <<>>]
        W2 == newWeapon(W1, player)
        W3 == newWeapon(W2, player)
    IN  [W3 EXCEPT !.Players = Append(@, [player EXCEPT !.Weapons = <<W2.weapon, W3.weapon>>]),
                   !.id = player.ID, !.ptr = player.ptr]

spawnMonster(W) ==
    LET W1 == generateID(W, "monster")
        rx == Rnd(W1)
        ry == Rnd(Adv(W1))
        rd == Rnd(Adv(Adv(W1)))
        monster == [ptr |-> W1.ptr + 1,
                    ID |-> W1.id,
                    X |-> (((gameMinX + 50) * RandDen + rx * (gameMaxX - gameMinX - 100)) * PosScale) \div RandDen,
                    Y |-> (((gameMinY + 50) * RandDen + ry * (gameMaxY - gameMinY - 100)) * PosScale) \div RandDen,
                    Width |-> 20 * PosScale, Height |-> 20 * PosScale,
                    Health |-> 60, MaxHealth |-> 60, lastHitById |-> <<>>,
                    Speed |-> 30, Direction |-> (rd * TwoPi) \div RandDen,
                    Damage |-> 20, DropRate |-> 75]
    IN  [Adv(Adv(Adv(W1))) EXCEPT !.Monsters = Append(@, monster), !.ptr = monster.ptr]

spawnHealingPotion(W, x, y) ==
    LET W1 == generateID(W, "potion")
    IN  [W1 EXCEPT !.HealingPotions = Append(@,
            [ID |-> W1.id, X |-> x, Y |-> y,
             Width |-> 12 * PosScale, Height |-> 12 * PosScale, Amount |-> 25])]

spawnExperience(W, x, y, amount) ==
    LET W1 == generateID(W, "experience")
        offsetX == ((2 * Rnd(W1) - RandDen) * 30 * PosScale) \div (2 * RandDen)
        offsetY == ((2 * Rnd(Adv(W1)) - RandDen) * 30 * PosScale) \div (2 * RandDen)
    IN  [Adv(Adv(W1)) EXCEPT !.Experiences = Append(@,
            [ID |-> W1.id, X |-> x + offsetX, Y |-> y + offsetY,
             Width |-> 8 * PosScale, Height |-> 8 * PosScale, Amount |-> amount])]

RECURSIVE spawnExperiences(_, _, _, _, _)
spawnExperiences(W, x, y, amount, n) ==
    IF n = 0 THEN W
    ELSE spawnExperiences(spawnExperience(W, x, y, amount), x, y, amount, n - 1)

---------------------------------------------------------------------------
(* Game.removePlayer, the lock apart *)

\* a removePlayer that spawns orbs for the player's experience, as a death does
removePlayerDropping(W, playerID) ==
    LET W1 == [W EXCEPT !.usedIDs["player"] = @ \ {playerID}]
        i  == IF \E k \in 1..Len(W1.Players) : W1.Players[k].ID = playerID
              THEN CHOOSE k \in 1..Len(W1.Players) : W1.Players[k].ID = playerID
              ELSE 0
    IN  IF i = 0 THEN W1
        ELSE LET player == W1.Players[i]
                 W2 == IF player.Experience > 0
                       THEN spawnExperiences(W1, player.X, player.Y, player.Experience \div 8, 4)
                       ELSE W1
                 W3 == [W2 EXCEPT !.Players =
                           [j \in 1..(Len(@) - 1) |-> IF j = i THEN @[Len(@)] ELSE @[j]]]
             IN  IF player.Client # Nil
                 THEN [W3 EXCEPT !.out = Append(@, [kind |-> "clear", c |-> player.Client])]
                 ELSE W3

PlayerIndex(players, playerID) ==
    IF \E i \in 1..Len(players) : players[i].ID = playerID
    THEN CHOOSE i \in 1..Len(players) :
             /\ players[i].ID = playerID
             /\ \A j \in 1..(i - 1) : players[j].ID # playerID
    ELSE 0

\* g.Players[i] = g.Players[lastIndex]; g.Players = g.Players[:lastIndex]
SwapRemove(s, i) ==
    [j \in 1..(Len(s) - 1) |-> IF j = i THEN s[Len(s)] ELSE s[j]]

removePlayer(W, playerID) ==
    LET W1 == releaseID(W, "player", playerID)
        i  == PlayerIndex(W1.Players, playerID)
    IN  IF i = 0 THEN W1
        ELSE LET player == W1.Players[i]
                 W2 == [W1 EXCEPT !.Players = SwapRemove(@, i)]
             IN  IF player.Client # Nil THEN ClearRef(W2, player.Client) ELSE W2

---------------------------------------------------------------------------
(* Generic loops *)

RECURSIVE FoldL(_, _, _)
FoldL(Op(_, _), acc, s) ==
    IF s = <<>> THEN acc
    ELSE LET a == Op(acc, Head(s))
         IN  IF DOMAIN a = {} THEN a ELSE FoldL(Op, a, Tail(s))

RECURSIVE Concat(_)
Concat(ss) == IF ss = <<>> THEN <<>> ELSE Head(ss) \o Concat(Tail(ss))

Indices(s) == [i \in 1..Len(s) |-> i]

---------------------------------------------------------------------------
(* PlayerSystem *)

\* Player.Move turning the player round at the top and bottom walls
PlayerMoveBouncing(p) ==
    LET newX0 == p.X + MoveDelta(Cos(p.Direction), p.Speed)
        newY0 == p.Y + MoveDelta(Sin(p.Direction), p.Speed)
        halfWidth  == p.Width \div 2
        halfHeight == p.Height \div 2
        newX == IF newX0 - halfWidth < ArenaMinX THEN ArenaMinX + halfWidth
                ELSE IF newX0 + halfWidth > ArenaMaxX THEN ArenaMaxX - halfWidth
                ELSE newX0
        newY == IF newY0 - halfHeight < ArenaMinY THEN ArenaMinY + halfHeight
                ELSE IF newY0 + halfHeight > ArenaMaxY THEN ArenaMaxY - halfHeight
                ELSE newY0
    IN  [p EXCEPT !.X = newX, !.Y = newY,
                  !.Direction = IF newY # newY0 THEN (TwoPi - @) % TwoPi ELSE @]

PlayerMove(p) ==
    LET newX0 == p.X + MoveDelta(Cos(p.Direction), p.Speed)
        newY0 == p.Y + MoveDelta(Sin(p.Direction), p.Speed)
        halfWidth  == p.Width \div 2
        halfHeight == p.Height \div 2
        newX == IF newX0 - halfWidth < ArenaMinX THEN ArenaMinX + halfWidth
                ELSE IF newX0 + halfWidth > ArenaMaxX THEN ArenaMaxX - halfWidth
                ELSE newX0
        newY == IF newY0 - halfHeight < ArenaMinY THEN ArenaMinY + halfHeight
                ELSE IF newY0 + halfHeight > ArenaMaxY THEN ArenaMaxY - halfHeight
                ELSE newY0
    IN  [p EXCEPT !.X = newX, !.Y = newY]

\* the weapon loop of PlayerSystem.Update
PlaceWeapons(p) ==
    LET weaponCount == Len(p.Weapons)
        angleDiff   == IF weaponCount > 0 THEN TwoPi \div weaponCount ELSE 0
    IN  [p EXCEPT !.Weapons =
            [i \in 1..weaponCount |->
                LET weaponAngle == p.WeaponRotationAngle + (i - 1) * angleDiff
                IN  [p.Weapons[i] EXCEPT
                        !.X = p.X + RoundDiv(Cos(weaponAngle) * orbitRadius * PosScale, TrigScale),
                        !.Y = p.Y + RoundDiv(Sin(weaponAngle) * orbitRadius * PosScale, TrigScale)]]]

\* the body of the player loop of PlayerSystem.Update
UpdatePlayer(p) ==
    LET p1 == PlayerMove(p)
        p2 == [p1 EXCEPT !.Damage = @ + (p1.Experience \div 100),
                         !.MaxHealth = @ + (p1.Experience \div 100)]
        p3 == [p2 EXCEPT !.WeaponRotationAngle =
                            (@ + RotationDelta(p2.WeaponRotationSpeed)) % TwoPi]
    IN  PlaceWeapons(p3)

\* the body of the loop of removeDeadPlayers, for dead player p
RemoveDeadPlayer(W, p) ==
    LET W1 == IF p.Client # Nil
              THEN Emit(W, p.Client, [type |-> "playerDeath", tick |-> W.tick, playerID |-> p.ID])
              ELSE W
        W2 == IF p.Experience > 0
              THEN LET expAmount  == p.Experience \div 2
                       numExpOrbs == 4 + Intn(W1, 4)
                   IN  spawnExperiences(Adv(W1), p.X, p.Y, expAmount \div numExpOrbs, numExpOrbs)
              ELSE W1
    IN  removePlayer(W2, p.ID)

removeDeadPlayers(W) ==
    FoldL(RemoveDeadPlayer, W, SelectSeq(W.Players, IsDead))

PlayerSystemUpdate(W) ==
    removeDeadPlayers([W EXCEPT !.Players = [i \in 1..Len(@) |-> UpdatePlayer(@[i])]])

---------------------------------------------------------------------------
(* MonsterSystem *)

\* Monster.Move on Monsters[i]
MonsterMove(W, i) ==
    LET m == W.Monsters[i]
        newX0 == m.X + MoveDelta(Cos(m.Direction), m.Speed)
        newY0 == m.Y + MoveDelta(Sin(m.Direction), m.Speed)
        halfWidth  == m.Width \div 2
        halfHeight == m.Height \div 2
        hitX == newX0 - halfWidth < ArenaMinX \/ newX0 + halfWidth > ArenaMaxX
        newX == IF newX0 - halfWidth < ArenaMinX THEN ArenaMinX + halfWidth
                ELSE IF newX0 + halfWidth > ArenaMaxX THEN ArenaMaxX - halfWidth
                ELSE newX0
        d1   == IF hitX THEN (Pi - m.Direction) % TwoPi ELSE m.Direction
        hitY == newY0 - halfHeight < ArenaMinY \/ newY0 + halfHeight > ArenaMaxY
        newY == IF newY0 - halfHeight < ArenaMinY THEN ArenaMinY + halfHeight
                ELSE IF newY0 + halfHeight > ArenaMaxY THEN ArenaMaxY - halfHeight
                ELSE newY0
        d2   == IF hitY THEN (0 - d1) % TwoPi ELSE d1
        reroll == Rnd(W) * 100 < RandDen
        W1   == Adv(W)
        d3   == IF reroll THEN (Rnd(W1) * TwoPi) \div RandDen ELSE d2
        W2   == IF reroll THEN Adv(W1) ELSE W1
    IN  [W2 EXCEPT !.Monsters[i] = [m EXCEPT !.X = newX, !.Y = newY, !.Direction = d3]]

\* the body of the loop of removeDeadMonsters; W.Monsters is rebuilt as `remaining`
RemoveDeadMonster(W, m) ==
    IF IsDead(m)
    THEN LET drop == Rnd(W) < m.DropRate
             W1 == IF drop THEN spawnHealingPotion(Adv(W), m.X, m.Y) ELSE Adv(W)
             expAmount  == 10 + Intn(W1, 10)
             W2 == Adv(W1)
             numExpOrbs == 3 + Intn(W2, 3)
             W3 == spawnExperiences(Adv(W2), m.X, m.Y, expAmount \div numExpOrbs, numExpOrbs)
         IN  releaseID(W3, "monster", m.ID)
    ELSE [W EXCEPT !.Monsters = Append(@, m)]

removeDeadMonsters(W) ==
    FoldL(RemoveDeadMonster, [W EXCEPT !.Monsters = <<>>], W.Monsters)

\* the spawn loop bounded by the population target alone
RECURSIVE spawnMonstersUncapped(_)
spawnMonstersUncapped(W) ==
    IF Len(W.Monsters) < Len(W.Players) * playerMasterRatio + baseMonsterAmount
    THEN spawnMonstersUncapped(spawnMonster(W))
    ELSE W

RECURSIVE spawnMonsters(_)
spawnMonsters(W) ==
    IF /\ Len(W.Monsters) < Len(W.Players) * playerMasterRatio + baseMonsterAmount
       /\ Len(W.Monsters) < maxMonsterAmount
    THEN spawnMonsters(spawnMonster(W))
    ELSE W

MonsterSystemUpdate(W) ==
    LET W1 == spawnMonsters(W)
        W2 == FoldL(MonsterMove, W1, Indices(W1.Monsters))
    IN  removeDeadMonsters(W2)

---------------------------------------------------------------------------
(* CollisionSystem *)

\* the health of the Player or Monster object tgt
HealthOf(W, tgt) ==
    IF \E i \in 1..Len(W.Players) : W.Players[i].ptr = tgt
    THEN W.Players[CHOOSE i \in 1..Len(W.Players) : W.Players[i].ptr = tgt].Health
    ELSE W.Monsters[CHOOSE i \in 1..Len(W.Monsters) : W.Monsters[i].ptr = tgt].Health

\* TakeDamage has been applied to object tgt by the source of id src and class cls
Damaged(W, src, cls, tgt) ==
    [W EXCEPT !.log = Append(@, [src |-> src, cls |-> cls, tgt |-> tgt,
                                 left |-> HealthOf(W, tgt)])]

\* a weapon-to-player body that notifies the player hit and not the owner
WeaponPlayerStepVictimOnly(W, pi, wi, oi) ==
    LET p     == W.Players[pi]
        w     == p.Weapons[wi]
        other == W.Players[oi]
    IN  IF other.ID = w.OwnerID THEN W
        ELSE IF CheckCollision(w, other) /\ CheckHitCooldown(other, w.ID, W.t)
        THEN LET o1 == TakeDamage(RecordHit(other, w.ID, W.t), p.Damage)
                 hitNotification ==
                     [type |-> "playerHit", tick |-> W.tick, from |-> w.OwnerID,
                      to |-> other.ID, damage |-> p.Damage, remainingHealth |-> o1.Health]
                 W1 == Damaged([W EXCEPT !.Players[oi] = o1], w.ID, "weapon", other.ptr)
             IN  IF other.Client # Nil THEN Emit(W1, other.Client, hitNotification) ELSE W1
        ELSE W

\* innermost body of the weapon-to-player loop: weapon wi of player pi against player oi
WeaponPlayerStep(W, pi, wi, oi) ==
    LET p     == W.Players[pi]
        w     == p.Weapons[wi]
        other == W.Players[oi]
    IN  IF other.ID = w.OwnerID THEN W
        ELSE IF CheckCollision(w, other) /\ CheckHitCooldown(other, w.ID, W.t)
        THEN LET o1 == TakeDamage(RecordHit(other, w.ID, W.t), p.Damage)
                 hitNotification ==
                     [type |-> "playerHit", tick |-> W.tick, from |-> w.OwnerID,
                      to |-> other.ID, damage |-> p.Damage, remainingHealth |-> o1.Health]
                 W1 == Damaged([W EXCEPT !.Players[oi] = o1], w.ID, "weapon", other.ptr)
                 W2 == IF p.Client # Nil THEN Emit(W1, p.Client, hitNotification) ELSE W1
             IN  IF other.Client # Nil THEN Emit(W2, other.Client, hitNotification) ELSE W2
        ELSE W

\* body of the weapon-to-monster loop: weapon wi of player pi against monster mi
WeaponMonsterStep(W, pi, wi, mi) ==
    LET p == W.Players[pi]
        w == p.Weapons[wi]
        m == W.Monsters[mi]
    IN  IF m.Health > 0 /\ CheckCollision(w, m) /\ CheckHitCooldown(m, w.ID, W.t)
        THEN LET m1 == TakeDamage(RecordHit(m, w.ID, W.t), p.Damage)
                 hitNotification ==
                     [type |-> "monsterHit", tick |-> W.tick, playerID |-> p.ID,
                      monsterID |-> m.ID, damage |-> p.Damage, monsterHealth |-> m1.Health,
                      status |-> IF IsDead(m1) THEN "killed" ELSE "hit"]
                 W1 == Damaged([W EXCEPT !.Monsters[mi] = m1], w.ID, "weapon", m.ptr)
             IN  IF p.Client # Nil THEN Emit(W1, p.Client, hitNotification) ELSE W1
        ELSE W

WeaponStep(W, s) ==
    IF s[1] = "P" THEN WeaponPlayerStep(W, s[2], s[3], s[4])
    ELSE WeaponMonsterStep(W, s[2], s[3], s[4])

\* the iteration order of checkWeaponCollisions
WeaponSteps(W) ==
    Concat([pi \in 1..Len(W.Players) |->
        Concat([wi \in 1..Len(W.Players[pi].Weapons) |->
            [oi \in 1..Len(W.Players) |-> <<"P", pi, wi, oi>>]
            \o [mi \in 1..Len(W.Monsters) |-> <<"M", pi, wi, mi>>]])])

checkWeaponCollisions(W) == FoldL(WeaponStep, W, WeaponSteps(W))

\* a monster-to-player body without the test of the monster's health
MonsterPlayerStepUndead(W, s) ==
    LET m == W.Monsters[s[1]]
        p == W.Players[s[2]]
    IN  IF CheckCollision(m, p) /\ CheckHitCooldown(p, m.ID, W.t)
        THEN LET p1 == TakeDamage(RecordHit(p, m.ID, W.t), m.Damage)
                 hitNotification ==
                     [type |-> "playerHit", tick |-> W.tick, from |-> m.ID, to |-> p.ID,
                      damage |-> m.Damage, remainingHealth |-> p1.Health]
                 W1 == Damaged([W EXCEPT !.Players[s[2]] = p1], m.ID, "monster", p.ptr)
             IN  IF p.Client # Nil THEN Emit(W1, p.Client, hitNotification) ELSE W1
        ELSE W

MonsterPlayerStep(W, s) ==
    LET m == W.Monsters[s[1]]
        p == W.Players[s[2]]
    IN  IF m.Health > 0 /\ CheckCollision(m, p) /\ CheckHitCooldown(p, m.ID, W.t)
        THEN LET p1 == TakeDamage(RecordHit(p, m.ID, W.t), m.Damage)
                 hitNotification ==
                     [type |-> "playerHit", tick |-> W.tick, from |-> m.ID, to |-> p.ID,
                      damage |-> m.Damage, remainingHealth |-> p1.Health]
                 W1 == Damaged([W EXCEPT !.Players[s[2]] = p1], m.ID, "monster", p.ptr)
             IN  IF p.Client # Nil THEN Emit(W1, p.Client, hitNotification) ELSE W1
        ELSE W

checkMonsterPlayerCollisions(W) ==
    FoldL(MonsterPlayerStep, W,
          Concat([mi \in 1..Len(W.Monsters) |-> [pi \in 1..Len(W.Players) |-> <<mi, pi>>]]))

\* a collector search that keeps the last player whose box meets item e
LastCollector(W, e) ==
    IF \E i \in 1..Len(W.Players) : CheckCollision(e, W.Players[i])
    THEN CHOOSE i \in 1..Len(W.Players) :
             /\ CheckCollision(e, W.Players[i])
             /\ \A j \in (i + 1)..Len(W.Players) : ~ CheckCollision(e, W.Players[j])
    ELSE 0

\* index of the first player whose box meets item e, or 0
FirstCollector(W, e) ==
    IF \E i \in 1..Len(W.Players) : CheckCollision(e, W.Players[i])
    THEN CHOOSE i \in 1..Len(W.Players) :
             /\ CheckCollision(e, W.Players[i])
             /\ \A j \in 1..(i - 1) : ~ CheckCollision(e, W.Players[j])
    ELSE 0

\* HealingPotion.OnCollect for Players[i]
PotionOnCollect(W, h, i) ==
    LET player == W.Players[i]
    IN  IF player.Client = Nil THEN W
        ELSE LET healedAmount == HealedAmount(player, h.Amount)
                 p1 == Heal(player, h.Amount)
             IN  Emit([W EXCEPT !.Players[i] = p1], player.Client,
                      [type |-> "potionCollected", tick |-> W.tick, playerID |-> player.ID,
                       potionID |-> h.ID, amount |-> h.Amount,
                       healedAmount |-> healedAmount, newHealth |-> p1.Health])

\* an OnCollect that levels up only above the threshold
ExperienceOnCollectLate(W, e, i) ==
    LET player == W.Players[i]
    IN  IF player.Client = Nil THEN W
        ELSE LET p1 == [player EXCEPT !.Experience = @ + e.Amount]
                 up == p1.Experience > p1.Level * 10
                 p2 == IF up
                       THEN [p1 EXCEPT !.Level = @ + 1, !.Damage = @ + 1,
                                       !.MaxHealth = @ + 10, !.Health = p1.MaxHealth + 10,
                                       !.Experience = 0]
                       ELSE p1
                 W1 == [W EXCEPT !.Players[i] = p2]
                 W2 == IF up
                       THEN Emit(W1, player.Client,
                                 [type |-> "levelUp", tick |-> W.tick,
                                  playerID |-> player.ID, level |-> p2.Level])
                       ELSE W1
             IN  Emit(W2, player.Client,
                      [type |-> "experienceCollected", tick |-> W.tick, playerID |-> player.ID,
                       experienceID |-> e.ID, amount |-> e.Amount,
                       totalExperience |-> p2.Experience])

\* an OnCollect that reports the collection before the level-up
ExperienceOnCollectReportFirst(W, e, i) ==
    LET player == W.Players[i]
    IN  IF player.Client = Nil THEN W
        ELSE LET p1 == [player EXCEPT !.Experience = @ + e.Amount]
                 up == p1.Experience >= p1.Level * 10
                 p2 == IF up
                       THEN [p1 EXCEPT !.Level = @ + 1, !.Damage = @ + 1,
                                       !.MaxHealth = @ + 10, !.Health = p1.MaxHealth + 10,
                                       !.Experience = 0]
                       ELSE p1
                 W1 == Emit([W EXCEPT !.Players[i] = p2], player.Client,
                            [type |-> "experienceCollected", tick |-> W.tick,
                             playerID |-> player.ID, experienceID |-> e.ID,
                             amount |-> e.Amount, totalExperience |-> p2.Experience])
             IN  IF up
                 THEN Emit(W1, player.Client,
                           [type |-> "levelUp", tick |-> W.tick,
                            playerID |-> player.ID, level |-> p2.Level])
                 ELSE W1

\* Experience.OnCollect for Players[i]
ExperienceOnCollect(W, e, i) ==
    LET player == W.Players[i]
    IN  IF player.Client = Nil THEN W
        ELSE LET p1 == [player EXCEPT !.Experience = @ + e.Amount]
                 up == p1.Experience >= p1.Level * 10
                 p2 == IF up
                       THEN [p1 EXCEPT !.Level = @ + 1, !.Damage = @ + 1,
                                       !.MaxHealth = @ + 10, !.Health = p1.MaxHealth + 10,
                                       !.Experience = 0]
                       ELSE p1
                 W1 == [W EXCEPT !.Players[i] = p2]
                 W2 == IF up
                       THEN Emit(W1, player.Client,
                                 [type |-> "levelUp", tick |-> W.tick,
                                  playerID |-> player.ID, level |-> p2.Level])
                       ELSE W1
             IN  Emit(W2, player.Client,
                      [type |-> "experienceCollected", tick |-> W.tick, playerID |-> player.ID,
                       experienceID |-> e.ID, amount |-> e.Amount,
                       totalExperience |-> p2.Experience])

\* body of the potion loop; W.HealingPotions is rebuilt as remainingPotions
PotionStep(W, potion) ==
    LET i == FirstCollector(W, potion)
    IN  IF i = 0 THEN [W EXCEPT !.HealingPotions = Append(@, potion)]
        ELSE releaseID(PotionOnCollect(W, potion, i), "potion", potion.ID)

checkPlayerPotionCollisions(W) ==
    FoldL(PotionStep, [W EXCEPT !.HealingPotions = <<>>], W.HealingPotions)

\* body of the experience loop; W.Experiences is rebuilt as remainingExperiences
ExperienceStep(W, exp) ==
    LET i == FirstCollector(W, exp)
    IN  IF i = 0 THEN [W EXCEPT !.Experiences = Append(@, exp)]
        ELSE releaseID(ExperienceOnCollect(W, exp, i), "experience", exp.ID)

checkPlayerExperienceCollisions(W) ==
    FoldL(ExperienceStep, [W EXCEPT !.Experiences = <<>>], W.Experiences)

CollisionSystemUpdate(W) ==
    checkPlayerExperienceCollisions(
        checkPlayerPotionCollisions(
            checkMonsterPlayerCollisions(
                checkWeaponCollisions(W))))

\* the three systems of one iteration of Game.run
RunSystems(W) == CollisionSystemUpdate(MonsterSystemUpdate(PlayerSystemUpdate(W)))


---------------------------------------------------------------------------
(* Inputs of the operations *)

\* wall-clock time between the starts of two ticks, ms
Deltas == {1000}

\* math/rand draws of one tick
RandStreams ==
    { <<5, 5, 0,    5, 5, 0,    5, 5, 0,    5, 5, 0,    5, 5, 0,
        50, 50, 25, 50, 50, 25, 50, 50, 25, 50, 50, 25, 50, 50, 25,
        50, 50, 50, 50, 50, 50, 50, 50, 50, 50>> }

\* UnixNano() % 10^9 at a call of generateID
Nanos == {0}

\* the direction a "direction" frame carries
Directions == {Pi}

\* the run-time panics of the program
NoPanic    == "none"
ClosedSend == "send on closed channel"
NilDeref   == "nil pointer dereference"
BadAssert  == "interface conversion"

\* JSON values as json.Unmarshal leaves them in a map[string]any: no entry
\* (or null), a string, a number (float64)
JNone   == [k |-> "none"]
JStr(s) == [k |-> "str", s |-> s]
JNum(n) == [k |-> "num", n |-> n]

NoPlayer == [ptr |-> 0, ID |-> 0]
NoLocals == [ptr |-> 0, ID |-> 0, dir |-> 0]

\* the world as the value an operation starts from
World(rnd, nano, t) ==
    [Players |-> Players, Monsters |-> Monsters, HealingPotions |-> HealingPotions,
     Experiences |-> Experiences, usedIDs |-> usedIDs, ptr |-> allocs,
     rnd |-> rnd, rk |-> 0, nano |-> nano, t |-> t, tick |-> tick,
     id |-> 0, weapon |-> <<>>, out |-> <<>>, log |-> <<>>]

\* the world an operation leaves
Install(W) ==
    /\ Players' = W.Players
    /\ Monsters' = W.Monsters
    /\ HealingPotions' = W.HealingPotions
    /\ Experiences' = W.Experiences
    /\ usedIDs' = W.usedIDs
    /\ allocs' = W.ptr

\* Client.player after the writes of `out` (the sends apart)
RECURSIVE Cleared(_, _)
Cleared(cp, out) ==
    IF out = <<>> THEN cp
    ELSE Cleared(IF Head(out).kind = "clear" THEN [cp EXCEPT ![Head(out).c] = NoPlayer] ELSE cp,
                 Tail(out))

Enqueue(c, m) ==
    /\ send' = [send EXCEPT ![c] = Append(@, m)]
    /\ hist' = [hist EXCEPT !.enq[c] = Append(@, m)]

---------------------------------------------------------------------------
(* History: the elapsed time between a damage application and the one      *)
(* before it from the same source id to the same target object             *)

HitKey(e) == <<e.src, e.tgt>>

Gaps(last, log, t) ==
    { IF \E j \in 1..(k - 1) : HitKey(log[j]) = HitKey(log[k]) THEN 0
      ELSE t - last[HitKey(log[k])] :
        k \in { k \in 1..Len(log) :
                   \/ HitKey(log[k]) \in DOMAIN last
                   \/ \E j \in 1..(k - 1) : HitKey(log[j]) = HitKey(log[k]) } }

LastDamage(last, log, t) ==
    LET new == { HitKey(log[k]) : k \in 1..Len(log) }
    IN  [key \in (DOMAIN last) \cup new |-> IF key \in new THEN t ELSE last[key]]

\* the same per source class, source id and target object
ClassKey(e) == <<e.cls, e.src, e.tgt>>

LastBy(last, log, t) ==
    LET new == { ClassKey(log[k]) : k \in 1..Len(log) }
    IN  [key \in (DOMAIN last) \cup new |-> IF key \in new THEN t ELSE last[key]]

\* the sources that met a player in the collision pass that left world W at
\* time t and applied no damage to it, though the last damage of that very
\* source to that player, if any, is at least weaponHitCooldown old: a
\* monster alive (checkMonsterPlayerCollisions), a weapon of another player
\* (checkWeaponCollisions)
Suppressed(W, last, t) ==
    LET hit(key)  == \E k \in 1..Len(W.log) : ClassKey(W.log[k]) = key
        cool(key) == key \in DOMAIN last /\ t - last[key] < weaponHitCooldown
        idle(key) == ~ hit(key) /\ ~ cool(key)
    IN  { <<"monster", W.Monsters[x[1]].ID, W.Players[x[2]].ptr>> :
            x \in { x \in (1..Len(W.Monsters)) \X (1..Len(W.Players)) :
                      /\ W.Monsters[x[1]].Health > 0
                      /\ CheckCollision(W.Monsters[x[1]], W.Players[x[2]])
                      /\ idle(<<"monster", W.Monsters[x[1]].ID, W.Players[x[2]].ptr>>) } }
        \cup
        UNION { { <<"weapon", W.Players[x[1]].Weapons[wi].ID, W.Players[x[2]].ptr>> :
                    wi \in { wi \in 1..Len(W.Players[x[1]].Weapons) :
                               /\ W.Players[x[2]].ID # W.Players[x[1]].Weapons[wi].OwnerID
                               /\ CheckCollision(W.Players[x[1]].Weapons[wi], W.Players[x[2]])
                               /\ idle(<<"weapon", W.Players[x[1]].Weapons[wi].ID,
                                         W.Players[x[2]].ptr>>) } } :
                x \in (1..Len(W.Players)) \X (1..Len(W.Players)) }

---------------------------------------------------------------------------
(* Game.run *)

IDs(s) == [i \in 1..Len(s) |-> s[i].ID]

\* the gameState message of tick k: the four copied lists, by entity id
GameState(k, players, monsters, potions, experiences) ==
    [type |-> "gameState", tick |-> k,
     players |-> IDs(players), monsters |-> IDs(monsters),
     potions |-> IDs(potions), experiences |-> IDs(experiences)]

\* g.mu.Lock() and the three systems
TickStart ==
    /\ simPc = "idle" /\ mu = "free" /\ tick < MaxTicks
    /\ \E delta \in Deltas, rnd \in RandStreams, nano \in Nanos :
          LET W == RunSystems([World(rnd, nano, now + delta) EXCEPT !.tick = tick + 1])
          IN  /\ Install(W)
              /\ now' = now + delta
              /\ outbox' = W.out
              /\ hist' = [hist EXCEPT !.gaps = Gaps(hist.lastDamage, W.log, now + delta),
                                      !.lastDamage = LastDamage(hist.lastDamage, W.log, now + delta),
                                      !.damage = W.log]
    /\ mu' = "sim" /\ simPc' = "tick" /\ tick' = tick + 1
    /\ UNCHANGED <<snapshot, netVars, crashed>>

\* the next send or back-reference write of the running tick
SimStep ==
    /\ simPc = "tick" /\ outbox # <<>>
    /\ LET it == Head(outbox)
       IN  IF it.kind = "clear"
           THEN /\ cplayer' = [cplayer EXCEPT ![it.c] = NoPlayer]
                /\ outbox' = Tail(outbox)
                /\ UNCHANGED <<send, hist, crashed>>
           ELSE IF closed[it.c]
           THEN /\ crashed' = ClosedSend
                /\ UNCHANGED <<send, hist, cplayer, outbox>>
           ELSE /\ Len(send[it.c]) < SendCap
                /\ Enqueue(it.c, it.m)
                /\ outbox' = Tail(outbox)
                /\ UNCHANGED <<cplayer, crashed>>
    /\ UNCHANGED <<worldVars, mu, now, tick, simPc, snapshot, clients, closed, rpc, rloc, wpc, socket>>

\* a Game.run that hands the snapshot to the Hub before its notifications are out
SimUnlockEarly ==
    /\ simPc = "tick"
    /\ mu' = "free" /\ simPc' = "bcast"
    /\ snapshot' = GameState(tick, Players, Monsters, HealingPotions, Experiences)
    /\ UNCHANGED <<worldVars, now, tick, outbox, netVars, crashed, hist>>

\* the copies, g.mu.Unlock() and json.Marshal
SimUnlock ==
    /\ simPc = "tick" /\ outbox = <<>>
    /\ mu' = "free" /\ simPc' = "bcast"
    /\ snapshot' = GameState(tick, Players, Monsters, HealingPotions, Experiences)
    /\ UNCHANGED <<worldVars, now, tick, outbox, netVars, crashed, hist>>

---------------------------------------------------------------------------
(* Hub.run *)

\* a Hub whose broadcast gives up at a full queue: nobody gets the message
HubBroadcastGivesUp ==
    /\ simPc = "bcast"
    /\ LET full == { c \in clients : Len(send[c]) >= SendCap }
           rest == IF full = {} THEN clients ELSE {}
       IN  /\ send' = [c \in Clients |-> IF c \in rest THEN Append(send[c], snapshot) ELSE send[c]]
           /\ hist' = [hist EXCEPT !.enq = [c \in Clients |->
                                        IF c \in rest THEN Append(@[c], snapshot) ELSE @[c]],
                                   !.evicted = full,
                                   !.delivered = rest]
           /\ closed' = [c \in Clients |-> closed[c] \/ c \in full]
           /\ clients' = clients \ full
    /\ simPc' = "idle"
    /\ UNCHANGED <<worldVars, mu, now, tick, outbox, snapshot, cplayer, rpc, rloc, wpc, socket, crashed>>

\* case message := <-h.broadcast, with Game.run's hub.broadcast <- jsonData
HubBroadcast ==
    /\ simPc = "bcast"
    /\ LET full == { c \in clients : Len(send[c]) >= SendCap }
       IN  /\ send' = [c \in Clients |->
                         IF c \in clients \ full THEN Append(send[c], snapshot) ELSE send[c]]
           /\ hist' = [hist EXCEPT !.enq = [c \in Clients |->
                                        IF c \in clients \ full THEN Append(@[c], snapshot) ELSE @[c]],
                                   !.evicted = full,
                                   !.delivered = clients \ full]
           /\ closed' = [c \in Clients |-> closed[c] \/ c \in full]
           /\ clients' = clients \ full
    /\ simPc' = "idle"
    /\ UNCHANGED <<worldVars, mu, now, tick, outbox, snapshot, cplayer, rpc, rloc, wpc, socket, crashed>>

\* connections are numbered in the order serveWs serves them
NextServed(c) == \A d \in Clients : d < c => rpc[d] # "new"

\* case client := <-h.register, with serveWs's client.hub.register <- client
HubRegister(c) ==
    /\ rpc[c] = "new" /\ NextServed(c)
    /\ clients' = clients \cup {c}
    /\ rpc' = [rpc EXCEPT ![c] = "read"]
    /\ wpc' = [wpc EXCEPT ![c] = "run"]
    /\ UNCHANGED <<worldVars, simVars, send, closed, cplayer, rloc, socket, crashed, hist>>

\* an unregister that closes the queue and leaves the connection registered
HubUnregisterKeeps(c) ==
    IF c \in clients
    THEN /\ closed' = [closed EXCEPT ![c] = TRUE]
         /\ UNCHANGED clients
    ELSE UNCHANGED <<clients, closed>>

\* case client := <-h.unregister: the Hub's side of readPump's c.hub.unregister <- c
HubUnregister(c) ==
    IF c \in clients
    THEN /\ clients' = clients \ {c}
         /\ closed' = [closed EXCEPT ![c] = TRUE]
    ELSE UNCHANGED <<clients, closed>>

---------------------------------------------------------------------------
(* Client.readPump *)

\* a "join" frame handled by an addNewPlayer that does not take g.mu
ReadJoinUnlocked(c) ==
    /\ rpc[c] = "read"
    /\ IF cplayer[c] # NoPlayer
       THEN UNCHANGED <<worldVars, rpc, rloc, hist>>
       ELSE /\ hist.joins < MaxJoins
            /\ hist' = [hist EXCEPT !.joins = @ + 1]
            /\ Cardinality(usedIDs["weapon"]) + 2 <= MaxID
            /\ Cardinality(usedIDs["player"]) + 1 <= MaxID
            /\ \E nano \in Nanos :
                  LET W == addNewPlayer(World(<<0>>, nano, now), c)
                  IN  /\ Install(W)
                      /\ rloc' = [rloc EXCEPT ![c] = [@ EXCEPT !.ptr = W.ptr, !.ID = W.id]]
            /\ rpc' = [rpc EXCEPT ![c] = "assign"]
    /\ UNCHANGED <<simVars, clients, send, closed, cplayer, wpc, socket, crashed>>

\* a "join" frame: the test c.player == nil and c.game.addNewPlayer(c), under g.mu
ReadJoin(c) ==
    /\ rpc[c] = "read"
    /\ IF cplayer[c] # NoPlayer
       THEN UNCHANGED <<worldVars, rpc, rloc, hist>>
       ELSE /\ mu = "free"
            /\ hist.joins < MaxJoins
            /\ hist' = [hist EXCEPT !.joins = @ + 1]
            /\ Cardinality(usedIDs["weapon"]) + 2 <= MaxID
            /\ Cardinality(usedIDs["player"]) + 1 <= MaxID
            /\ \E nano \in Nanos :
                  LET W == addNewPlayer(World(<<0>>, nano, now), c)
                  IN  /\ Install(W)
                      /\ rloc' = [rloc EXCEPT ![c] = [@ EXCEPT !.ptr = W.ptr, !.ID = W.id]]
            /\ rpc' = [rpc EXCEPT ![c] = "assign"]
    /\ UNCHANGED <<simVars, clients, send, closed, cplayer, wpc, socket, crashed>>

\* c.player = (the player returned)
JoinAssign(c) ==
    /\ rpc[c] = "assign"
    /\ cplayer' = [cplayer EXCEPT ![c] = [ptr |-> rloc[c].ptr, ID |-> rloc[c].ID]]
    /\ rpc' = [rpc EXCEPT ![c] = "joined"]
    /\ UNCHANGED <<worldVars, simVars, clients, send, closed, rloc, wpc, socket, crashed, hist>>

\* c.send <- responseJSON
JoinReply(c) ==
    /\ rpc[c] = "joined"
    /\ IF closed[c]
       THEN /\ crashed' = ClosedSend
            /\ UNCHANGED <<send, hist, rpc>>
       ELSE /\ Len(send[c]) < SendCap
            /\ Enqueue(c, [type |-> "joined", tick |-> 0, playerID |-> rloc[c].ID])
            /\ rpc' = [rpc EXCEPT ![c] = "read"]
            /\ UNCHANGED crashed
    /\ UNCHANGED <<worldVars, simVars, clients, closed, cplayer, rloc, wpc, socket>>

\* a "direction" frame carrying number d: the test c.player != nil
ReadDirection(c, d) ==
    /\ rpc[c] = "read"
    /\ hist.dirs < MaxDirs
    /\ hist' = [hist EXCEPT !.dirs = @ + 1]
    /\ IF cplayer[c] # NoPlayer
       THEN /\ rpc' = [rpc EXCEPT ![c] = "direction"]
            /\ rloc' = [rloc EXCEPT ![c] = [@ EXCEPT !.dir = d]]
       ELSE UNCHANGED <<rpc, rloc>>
    /\ UNCHANGED <<worldVars, simVars, clients, send, closed, cplayer, wpc, socket, crashed>>

\* c.player.Direction = direction (no lock)
WriteDirection(c) ==
    /\ rpc[c] = "direction"
    /\ IF cplayer[c] = NoPlayer
       THEN /\ crashed' = NilDeref
            /\ UNCHANGED <<Players, rpc>>
       ELSE /\ Players' = [i \in 1..Len(Players) |->
                              IF Players[i].ptr = cplayer[c].ptr
                              THEN [Players[i] EXCEPT !.Direction = rloc[c].dir]
                              ELSE Players[i]]
            /\ rpc' = [rpc EXCEPT ![c] = "read"]
            /\ UNCHANGED crashed
    /\ UNCHANGED <<Monsters, HealingPotions, Experiences, usedIDs, allocs, simVars,
                   clients, send, closed, cplayer, rloc, wpc, socket, hist>>

\* ReadMessage returns an error (a fault of the socket, or writePump has
\* returned and its deferred c.conn.Close() has closed the connection):
\* break; deferred: c.hub.unregister <- c
ReadError(c) ==
    /\ rpc[c] = "read"
    /\ hist.faults < MaxFaults \/ wpc[c] = "done"
    /\ hist' = [hist EXCEPT !.faults = IF wpc[c] = "done" THEN @ ELSE @ + 1]
    /\ HubUnregister(c)
    /\ rpc' = [rpc EXCEPT ![c] = "cleanup"]
    /\ UNCHANGED <<worldVars, simVars, send, cplayer, rloc, wpc, socket, crashed>>

\* deferred: if c.player != nil, and the argument c.player.ID
Cleanup(c) ==
    /\ rpc[c] = "cleanup"
    /\ IF cplayer[c] = NoPlayer
       THEN /\ rpc' = [rpc EXCEPT ![c] = "done"]
            /\ UNCHANGED rloc
       ELSE /\ rpc' = [rpc EXCEPT ![c] = "removePlayer"]
            /\ rloc' = [rloc EXCEPT ![c] = [@ EXCEPT !.ID = cplayer[c].ID]]
    /\ UNCHANGED <<worldVars, simVars, clients, send, closed, cplayer, wpc, socket, crashed, hist>>

\* deferred: c.game.removePlayer(id, false), under g.mu; then
\* log.Printf("Player %d disconnected", c.player.ID) and c.conn.Close()
RemoveLocked(c) ==
    /\ rpc[c] = "removePlayer" /\ mu = "free"
    /\ LET W == removePlayer(World(<<0>>, 0, now), rloc[c].ID)
       IN  /\ Install(W)
           /\ cplayer' = Cleared(cplayer, W.out)
           /\ IF Cleared(cplayer, W.out)[c] = NoPlayer
              THEN crashed' = NilDeref /\ UNCHANGED rpc
              ELSE rpc' = [rpc EXCEPT ![c] = "done"] /\ UNCHANGED crashed
    /\ UNCHANGED <<simVars, clients, send, closed, rloc, wpc, socket, hist>>

---------------------------------------------------------------------------
(* Client.writePump *)

Reverse(s) == [i \in 1..Len(s) |-> s[Len(s) + 1 - i]]

\* a writePump that writes the queued messages of a frame last first
WriterRecvLifo(c) ==
    /\ wpc[c] = "run"
    /\ IF send[c] # <<>>
       THEN /\ socket' = [socket EXCEPT ![c] = @ \o Reverse(send[c])]
            /\ send' = [send EXCEPT ![c] = <<>>]
            /\ hist' = [hist EXCEPT !.batch = IF Len(send[c]) > @ THEN Len(send[c]) ELSE @]
            /\ UNCHANGED wpc
       ELSE /\ closed[c]
            /\ socket' = [socket EXCEPT ![c] = Append(@, [type |-> "close"])]
            /\ wpc' = [wpc EXCEPT ![c] = "done"]
            /\ UNCHANGED <<send, hist>>
    /\ UNCHANGED <<worldVars, simVars, clients, closed, cplayer, rpc, rloc, crashed>>

\* case message, ok := <-c.send: one text frame holding the message and the
\* n := len(c.send) messages queued behind it; or, the channel closed and
\* drained, the close frame
WriterRecv(c) ==
    /\ wpc[c] = "run"
    /\ IF send[c] # <<>>
       THEN /\ socket' = [socket EXCEPT ![c] = @ \o send[c]]
            /\ send' = [send EXCEPT ![c] = <<>>]
            /\ hist' = [hist EXCEPT !.batch = IF Len(send[c]) > @ THEN Len(send[c]) ELSE @]
            /\ UNCHANGED wpc
       ELSE /\ closed[c]
            /\ socket' = [socket EXCEPT ![c] = Append(@, [type |-> "close"])]
            /\ wpc' = [wpc EXCEPT ![c] = "done"]
            /\ UNCHANGED <<send, hist>>
    /\ UNCHANGED <<worldVars, simVars, clients, closed, cplayer, rpc, rloc, crashed>>

\* NextWriter, w.Close or the ping returns an error: return
WriterFail(c) ==
    /\ wpc[c] = "run"
    /\ hist.faults < MaxFaults
    /\ hist' = [hist EXCEPT !.faults = @ + 1]
    /\ wpc' = [wpc EXCEPT ![c] = "done"]
    /\ UNCHANGED <<worldVars, simVars, clients, send, closed, cplayer, rpc, rloc, socket, crashed>>

---------------------------------------------------------------------------
(* The server *)

\* the history of a run that has not started
NoHistory ==
    [enq |-> [c \in Clients |-> <<>>], lastDamage |-> <<>>, damage |-> <<>>, gaps |-> {},
     joins |-> 0, dirs |-> 0, faults |-> 0,
     evicted |-> {}, delivered |-> {}, batch |-> 0, healed |-> FALSE,
     killed |-> {}, zeroed |-> {}, left |-> <<>>,
     frames |-> 0, rejoin |-> FALSE, dropped |-> FALSE,
     steer |-> [c \in Clients |-> JNone],
     lastBy |-> <<>>, suppressed |-> {}, out |-> <<>>]

Init ==
    /\ Players = <<>> /\ Monsters = <<>> /\ HealingPotions = <<>> /\ Experiences = <<>>
    /\ usedIDs = [t \in Classes |-> {}]
    /\ allocs = 0
    /\ mu = "free" /\ now = 0 /\ tick = 0 /\ simPc = "idle" /\ outbox = <<>>
    /\ snapshot = GameState(0, <<>>, <<>>, <<>>, <<>>)
    /\ clients = {}
    /\ send = [c \in Clients |-> <<>>]
    /\ closed = [c \in Clients |-> FALSE]
    /\ cplayer = [c \in Clients |-> NoPlayer]
    /\ rpc = [c \in Clients |-> "new"]
    /\ rloc = [c \in Clients |-> NoLocals]
    /\ wpc = [c \in Clients |-> "new"]
    /\ socket = [c \in Clients |-> <<>>]
    /\ crashed = NoPanic
    /\ hist = NoHistory

\* a panic ends every goroutine
Running == crashed = NoPanic

\* the body of one iteration of Game.run, once started
Tick == Running /\ (SimStep \/ SimUnlock)

Sim == (Running /\ TickStart) \/ Tick

Hub == Running /\ (HubBroadcast \/ \E c \in Clients : HubRegister(c))

Reader(c) ==
    /\ Running
    /\ \/ ReadJoin(c) \/ JoinAssign(c) \/ JoinReply(c)
       \/ (\E d \in Directions : ReadDirection(c, d)) \/ WriteDirection(c)
       \/ ReadError(c) \/ Cleanup(c) \/ RemoveLocked(c)

Writer(c) == Running /\ (WriterRecv(c) \/ WriterFail(c))

Next == Sim \/ Hub \/ \E c \in Clients : Reader(c) \/ Writer(c)

Spec == Init /\ [][Next]_vars

---------------------------------------------------------------------------
(* The world alone: the same operations, each taken as one step. A tick     *)
(* runs from g.mu.Lock() to the broadcast with every send received at once  *)
(* (the message paths are the subject of Spec), so that long runs of ticks  *)
(* are explored: walks across the arena, kills, drops, level-ups.           *)

\* wall-clock time between the starts of two ticks, ms: half the hit cooldown
WorldDeltas == {500}

\* math/rand draws of the tick that starts after k ticks. The first tick
\* spawns the monsters: either one beside the player spawn heading left, one
\* under the first weapon heading right and the others mid-arena; or all of
\* them mid-arena; or six of them on the player spawn; or, with the first
\* two, three of them above the player's way to the right, heading down.
\* Later ticks draw 0.50 for the moves of the twelve monsters and for the
\* potion drop and the experience amount of a dead one, and 0 for its number
\* of orbs (three orbs of 5, at the place of the death)
WorldStreams(k) ==
    IF k = 0
    THEN { <<4, 5, 50,   7, 7, 99,   50, 50, 25, 50, 50, 25, 50, 50, 25,
             50, 50, 25, 50, 50, 25, 50, 50, 25, 50, 50, 25, 50, 50, 25,
             50, 50, 25, 50, 50, 25>>,
           <<50>>,
           <<5, 5, 99,   5, 5, 99,   5, 5, 99,   5, 5, 99,   5, 5, 99,
             5, 5, 99,   50, 50, 25, 50, 50, 25, 50, 50, 25, 50, 50, 25,
             50, 50, 25, 50, 50, 25>>,
           <<4, 5, 50,   7, 7, 99,   8, 4, 25,   8, 4, 25,   8, 4, 25,
             50, 50, 25, 50, 50, 25, 50, 50, 25, 50, 50, 25, 50, 50, 25,
             50, 50, 25, 50, 50, 25>> }
    ELSE { <<50, 50, 50, 50, 50, 50, 50, 50, 50, 50, 50, 50,   50, 50, 0>> }

\* the monsters that `out` reports killed
Killed(out) ==
    { out[k].m.monsterID :
        k \in { k \in 1..Len(out) : /\ out[k].kind = "send"
                                    /\ out[k].m.type = "monsterHit"
                                    /\ out[k].m.status = "killed" } }

\* the objects that `log` shows reduced to health 0
Zeroed(log) == { log[k].tgt : k \in { k \in 1..Len(log) : log[k].left = 0 } }

\* a potionCollected notification of `out` reports health restored
Healed(out) ==
    \E k \in 1..Len(out) :
       /\ out[k].kind = "send"
       /\ out[k].m.type = "potionCollected"
       /\ out[k].m.healedAmount > 0

\* one iteration of Game.run, started delta after the last one, with draws
\* rnd and clock reading nano
TickWith(delta, rnd, nano) ==
    /\ LET W == RunSystems([World(rnd, nano, now + delta) EXCEPT !.tick = tick + 1])
       IN  /\ Install(W)
           /\ now' = now + delta
           /\ cplayer' = Cleared(cplayer, W.out)
           /\ hist' = [hist EXCEPT !.gaps = Gaps(hist.lastDamage, W.log, now + delta),
                                   !.lastDamage = LastDamage(hist.lastDamage, W.log, now + delta),
                                   !.damage = W.log,
                                   !.healed = @ \/ Healed(W.out),
                                   !.lastBy = LastBy(hist.lastBy, W.log, now + delta),
                                   !.suppressed = Suppressed(W, hist.lastBy, now + delta),
                                   !.killed = Killed(W.out),
                                   !.zeroed = @ \cup Zeroed(W.log)]
           /\ snapshot' = GameState(tick + 1, W.Players, W.Monsters, W.HealingPotions, W.Experiences)
    /\ tick' = tick + 1
    /\ UNCHANGED <<mu, simPc, outbox, clients, send, closed, rpc, rloc, wpc, socket, crashed>>

\* one iteration of Game.run
WorldTick ==
    /\ simPc = "idle" /\ mu = "free" /\ tick < MaxWorldTicks
    /\ \E delta \in WorldDeltas, rnd \in WorldStreams(tick), nano \in Nanos :
          TickWith(delta, rnd, nano)

\* a connection is served (serveWs, the Hub's register case) and its first
\* frame is a "join": c.game.addNewPlayer(c) to c.player = player
WorldJoin(c) ==
    /\ rpc[c] = "new" /\ NextServed(c)
    /\ tick <= MaxJoinTick
    /\ hist.joins < MaxJoins
    /\ Cardinality(usedIDs["weapon"]) + 2 <= MaxID
    /\ Cardinality(usedIDs["player"]) + 1 <= MaxID
    /\ \E nano \in Nanos :
          LET W == addNewPlayer(World(<<0>>, nano, now), c)
          IN  /\ Install(W)
              /\ cplayer' = [cplayer EXCEPT ![c] = [ptr |-> W.ptr, ID |-> W.id]]
    /\ clients' = clients \cup {c}
    /\ rpc' = [rpc EXCEPT ![c] = "read"]
    /\ wpc' = [wpc EXCEPT ![c] = "run"]
    /\ hist' = [hist EXCEPT !.joins = @ + 1]
    /\ UNCHANGED <<simVars, send, closed, rloc, socket, crashed>>

\* a "direction" frame carrying number d
WorldDirection(c, d) ==
    /\ rpc[c] = "read" /\ cplayer[c] # NoPlayer
    /\ hist.dirs < MaxDirs
    /\ hist' = [hist EXCEPT !.dirs = @ + 1]
    /\ Players' = [i \in 1..Len(Players) |->
                      IF Players[i].ptr = cplayer[c].ptr
                      THEN [Players[i] EXCEPT !.Direction = d]
                      ELSE Players[i]]
    /\ UNCHANGED <<Monsters, HealingPotions, Experiences, usedIDs, allocs, simVars,
                   netVars, crashed>>

\* ReadMessage returns an error on a connection that has a player:
\* readPump's deferred function, whole
WorldLeave(c) ==
    /\ rpc[c] = "read" /\ cplayer[c] # NoPlayer
    /\ hist.faults < MaxFaults
    /\ hist' = [hist EXCEPT !.faults = @ + 1,
                            !.left = @ \o [i \in 1..1 |->
                                LET k == PlayerIndex(Players, cplayer[c].ID)
                                IN  IF k = 0 THEN 0 ELSE Players[k].Experience]]
    /\ HubUnregister(c)
    /\ LET W == removePlayer(World(<<0>>, 0, now), cplayer[c].ID)
       IN  /\ Install(W)
           /\ cplayer' = Cleared(cplayer, W.out)
           /\ IF Cleared(cplayer, W.out)[c] = NoPlayer
              THEN crashed' = NilDeref /\ UNCHANGED rpc
              ELSE rpc' = [rpc EXCEPT ![c] = "done"] /\ UNCHANGED crashed
    /\ UNCHANGED <<simVars, send, rloc, wpc, socket>>

WorldNext ==
    /\ Running
    /\ \/ WorldTick
       \/ \E c \in Clients : \/ WorldJoin(c)
                              \/ (\E d \in Directions : WorldDirection(c, d))
                              \/ WorldLeave(c)

WorldSpec == Init /\ [][WorldNext]_vars

---------------------------------------------------------------------------
(* The reader and its inbound frames: every frame is handled in one step,   *)
(* from ReadMessage to the end of the switch; frames arrive before and      *)
(* between the first ticks, and the ticks then run on, a player walking to  *)
(* a wall.                                                                  *)

Up == (3 * Pi) \div 2

\* the direction a well-formed "direction" frame carries
FrameDirections == {Pi, Up}

\* an inbound frame: its length in bytes, whether its text is a JSON object,
\* and the entries "type" and "direction" of that object
Frames ==
    { [size |-> 16,  json |-> TRUE,  type |-> JStr("join"),      direction |-> JNone],
      [size |-> 16,  json |-> FALSE, type |-> JNone,             direction |-> JNone],
      [size |-> 16,  json |-> TRUE,  type |-> JStr("chat"),      direction |-> JNone],
      [size |-> 16,  json |-> TRUE,  type |-> JNone,             direction |-> JNum(Pi)],
      [size |-> 16,  json |-> TRUE,  type |-> JNum(1),           direction |-> JNone],
      [size |-> 32,  json |-> TRUE,  type |-> JStr("direction"), direction |-> JNone],
      [size |-> 32,  json |-> TRUE,  type |-> JStr("direction"), direction |-> JStr("up")],
      [size |-> 600, json |-> TRUE,  type |-> JStr("direction"), direction |-> JNum(Pi)] }
    \cup { [size |-> 32, json |-> TRUE, type |-> JStr("direction"), direction |-> JNum(d)] :
              d \in FrameDirections }

\* the way a frame takes through readPump: ReadMessage under the read limit,
\* json.Unmarshal, data["type"].(string) and the switch
FrameKind(f) ==
    IF f.size > maxMessageSize THEN "error"
    ELSE IF ~ f.json THEN "malformed"
    ELSE IF f.type.k # "str" THEN "untyped"
    ELSE IF f.type.s \in {"join", "direction"} THEN f.type.s
    ELSE "unknown"

\* math/rand draws of a tick: every monster mid-arena, heading down
FrameStreams == { <<50, 50, 25>> }

\* a join handler that does not test c.player
FrameJoinAlways(c) ==
    /\ IF closed[c]
       THEN /\ crashed' = ClosedSend
            /\ UNCHANGED <<worldVars, cplayer, send>>
       ELSE /\ Len(send[c]) < SendCap
            /\ Cardinality(usedIDs["weapon"]) + 2 <= MaxID
            /\ Cardinality(usedIDs["player"]) + 1 <= MaxID
            /\ \E nano \in Nanos :
                  LET W == addNewPlayer(World(<<0>>, nano, now), c)
                  IN  /\ Install(W)
                      /\ cplayer' = [cplayer EXCEPT ![c] = [ptr |-> W.ptr, ID |-> W.id]]
                      /\ send' = [send EXCEPT ![c] =
                                     Append(@, [type |-> "joined", tick |-> 0, playerID |-> W.id])]
            /\ UNCHANGED crashed
    /\ UNCHANGED <<clients, closed, rpc>>

\* case "join": if c.player == nil, c.player = c.game.addNewPlayer(c) and
\* c.send <- responseJSON
FrameJoin(c) ==
    /\ IF cplayer[c] # NoPlayer
       THEN UNCHANGED <<worldVars, cplayer, send, crashed>>
       ELSE IF closed[c]
       THEN /\ crashed' = ClosedSend
            /\ UNCHANGED <<worldVars, cplayer, send>>
       ELSE /\ Len(send[c]) < SendCap
            /\ Cardinality(usedIDs["weapon"]) + 2 <= MaxID
            /\ Cardinality(usedIDs["player"]) + 1 <= MaxID
            /\ \E nano \in Nanos :
                  LET W == addNewPlayer(World(<<0>>, nano, now), c)
                  IN  /\ Install(W)
                      /\ cplayer' = [cplayer EXCEPT ![c] = [ptr |-> W.ptr, ID |-> W.id]]
                      /\ send' = [send EXCEPT ![c] =
                                     Append(@, [type |-> "joined", tick |-> 0, playerID |-> W.id])]
            /\ UNCHANGED crashed
    /\ UNCHANGED <<clients, closed, rpc>>

\* case "direction": if c.player != nil && data["direction"] != nil, the
\* assertion data["direction"].(float64) and c.player.Direction = direction
FrameDirection(c, v) ==
    /\ IF cplayer[c] = NoPlayer \/ v.k = "none"
       THEN UNCHANGED <<Players, crashed>>
       ELSE IF v.k # "num"
       THEN /\ crashed' = BadAssert
            /\ UNCHANGED Players
       ELSE /\ Players' = [i \in 1..Len(Players) |->
                              IF Players[i].ptr = cplayer[c].ptr
                              THEN [Players[i] EXCEPT !.Direction = v.n]
                              ELSE Players[i]]
            /\ UNCHANGED crashed
    /\ UNCHANGED <<Monsters, HealingPotions, Experiences, usedIDs, allocs,
                   clients, send, closed, cplayer, rpc>>

\* ReadMessage returned an error: break, and readPump's deferred function
FrameError(c) ==
    /\ HubUnregister(c)
    /\ IF cplayer[c] = NoPlayer
       THEN /\ rpc' = [rpc EXCEPT ![c] = "done"]
            /\ UNCHANGED <<worldVars, cplayer, crashed>>
       ELSE LET W == removePlayer(World(<<0>>, 0, now), cplayer[c].ID)
            IN  /\ Install(W)
                /\ cplayer' = Cleared(cplayer, W.out)
                /\ IF Cleared(cplayer, W.out)[c] = NoPlayer
                   THEN crashed' = NilDeref /\ UNCHANGED rpc
                   ELSE rpc' = [rpc EXCEPT ![c] = "done"] /\ UNCHANGED crashed
    /\ UNCHANGED send

\* continue, or the end of the switch with nothing done
FrameDrop(c) ==
    UNCHANGED <<worldVars, clients, send, closed, cplayer, rpc, crashed>>

\* the frames that are errors of the peer: everything but a "join" and a
\* "direction" that carries a number
BadFrames ==
    { f \in Frames : /\ FrameKind(f) # "join"
                      /\ ~ (FrameKind(f) = "direction" /\ f.direction.k = "num") }

JoinFrame == [size |-> 16, json |-> TRUE, type |-> JStr("join"), direction |-> JNone]

\* one iteration of readPump's loop on frame f
FrameRead(c, f) ==
    /\ rpc[c] = "read" /\ tick <= MaxFrameTick /\ hist.frames < MaxFrames
    /\ LET kind == FrameKind(f)
           attached == cplayer[c] # NoPlayer
       IN  /\ CASE kind = "error"     -> FrameError(c)
                 [] kind = "join"      -> FrameJoin(c)
                 [] kind = "direction" -> FrameDirection(c, f.direction)
                 [] OTHER              -> FrameDrop(c)
           /\ hist' = [hist EXCEPT
                  !.frames = @ + 1,
                  !.rejoin = @ \/ (kind = "join" /\ attached),
                  !.dropped = @ \/ (f \in BadFrames /\ attached),
                  !.enq[c] = IF Len(send'[c]) > Len(send[c])
                             THEN Append(@, send'[c][Len(send'[c])])
                             ELSE @,
                  !.steer[c] = IF kind = "join" /\ ~ attached THEN JNone
                               ELSE IF kind = "direction" /\ attached /\ f.direction.k = "num"
                               THEN f.direction
                               ELSE @]
    /\ UNCHANGED <<simVars, rloc, wpc, socket>>

FrameTick ==
    /\ simPc = "idle" /\ mu = "free" /\ tick < MaxFrameTicks
    /\ \E delta \in WorldDeltas, rnd \in FrameStreams, nano \in Nanos :
          TickWith(delta, rnd, nano)

FrameNext ==
    /\ Running
    /\ \/ FrameTick
       \/ \E c \in Clients : \/ HubRegister(c)
                              \/ \E f \in Frames : FrameRead(c, f)

FrameSpec == Init /\ [][FrameNext]_vars

---------------------------------------------------------------------------
(* Two players: each connection is served and joins in one step, at any    *)
(* tick; the players walk to the right from the spawn point, the second    *)
(* behind the first.                                                       *)

\* math/rand draws of the tick that starts after k ticks: the first tick
\* spawns the fourth and the fifth monster above the players' way, heading
\* down, and the others mid-arena; later ticks draw 0.50
DuelStreams(k) ==
    IF k = 0
    THEN { <<50, 50, 25, 50, 50, 25, 50, 50, 25, 8, 4, 25,   8, 4, 25,
             50, 50, 25, 50, 50, 25, 50, 50, 25, 50, 50, 25, 50, 50, 25,
             50, 50, 25, 50, 50, 25>> }
    ELSE { <<50>> }

DuelTick ==
    /\ simPc = "idle" /\ mu = "free" /\ tick < MaxDuelTicks
    /\ \E delta \in WorldDeltas, rnd \in DuelStreams(tick), nano \in Nanos :
          TickWith(delta, rnd, nano)

\* a connection is served and its first frame is a "join"
DuelJoin(c) ==
    /\ rpc[c] = "new" /\ NextServed(c)
    /\ tick <= MaxDuelJoinTick
    /\ Cardinality(usedIDs["weapon"]) + 2 <= MaxID
    /\ Cardinality(usedIDs["player"]) + 1 <= MaxID
    /\ \E nano \in Nanos :
          LET W == addNewPlayer(World(<<0>>, nano, now), c)
          IN  /\ Install(W)
              /\ cplayer' = [cplayer EXCEPT ![c] = [ptr |-> W.ptr, ID |-> W.id]]
    /\ clients' = clients \cup {c}
    /\ rpc' = [rpc EXCEPT ![c] = "read"]
    /\ wpc' = [wpc EXCEPT ![c] = "run"]
    /\ UNCHANGED <<simVars, send, closed, rloc, socket, crashed, hist>>

DuelNext ==
    /\ Running
    /\ \/ DuelTick
       \/ \E c \in Clients : DuelJoin(c)

DuelSpec == Init /\ [][DuelNext]_vars

---------------------------------------------------------------------------
(* The collision subsystem alone: one call of CollisionSystem.Update, a     *)
(* step for each of the four functions it calls, on a world of two players, *)
(* one monster, one potion and one orb, drawn from a set of placements      *)
(* around the first player. Game.run holds the mutex; simPc names the       *)
(* function it is about to call.                                            *)

\* the placements: x2 is the second player's distance to the right of the
\* first; grade the first player's level and experience; orb and potion the
\* offsets of the orb and of the potion from the first player (on it, edge
\* to edge with it, one step apart from it, clear of it); amount the orb's
\* amount; spot the rand draws that place the monster (under the first
\* player's first weapon, or mid-arena); wear the health the earlier ticks
\* have left to the second player and to the monster (hurt, or one hit from
\* death)
CollideCases ==
    [x2 : {0, 30 * PosScale}, grade : {<<1, 0>>, <<1, 5>>, <<2, 15>>},
     orb : {<<0, 0>>, <<53, 0>>, <<54, 0>>, <<0, 84>>, <<54, 84>>, <<55, 0>>, <<0, 85>>},
     amount : {1, 5, 10}, potion : {<<0, 0>>, <<66, 0>>, <<0, 200>>},
     spot : {<<7, 7, 25>>, <<50, 50, 25>>}, wear : {<<50, 60>>, <<5, 10>>}]

\* a player as its level-ups and the hits it took have left it: at level
\* lvl with experience ex, at health 50, at abscissa x, its weapons placed
Seasoned(p, x, lvl, ex) ==
    PlaceWeapons([p EXCEPT !.X = x, !.Level = lvl, !.Experience = ex,
                           !.Damage = @ + (lvl - 1), !.MaxHealth = @ + 10 * (lvl - 1),
                           !.Health = 50])

\* the world of placement cfg, built by the constructors
CollideWorld(cfg) ==
    LET W0 == [Players |-> <<>>, Monsters |-> <<>>, HealingPotions |-> <<>>,
               Experiences |-> <<>>, usedIDs |-> [t \in Classes |-> {}], ptr |-> 0,
               rnd |-> cfg.spot, rk |-> 0, nano |-> 0, t |-> 0, tick |-> 1,
               id |-> 0, weapon |-> <<>>, out |-> <<>>, log |-> <<>>]
        W1 == addNewPlayer(addNewPlayer(W0, 1), 2)
        p1 == Seasoned(W1.Players[1], 100 * PosScale, cfg.grade[1], cfg.grade[2])
        p2 == [Seasoned(W1.Players[2], 100 * PosScale + cfg.x2, 1, 0)
                  EXCEPT !.Health = cfg.wear[1]]
        W2 == spawnMonster([W1 EXCEPT !.Players = <<p1, p2>>])
        W3 == spawnHealingPotion([W2 EXCEPT !.rnd = <<50>>, !.rk = 0,
                                            !.Monsters[1].Health = cfg.wear[2]],
                                 p1.X + cfg.potion[1], p1.Y + cfg.potion[2])
    IN  spawnExperience(W3, p1.X + cfg.orb[1], p1.Y + cfg.orb[2], cfg.amount)

CollideInit ==
    \E cfg \in CollideCases :
       LET W == CollideWorld(cfg)
       IN  /\ Players = W.Players /\ Monsters = W.Monsters
           /\ HealingPotions = W.HealingPotions /\ Experiences = W.Experiences
           /\ usedIDs = W.usedIDs /\ allocs = W.ptr
           /\ cplayer = [c \in Clients |-> [ptr |-> W.Players[c].ptr, ID |-> W.Players[c].ID]]
           /\ mu = "sim" /\ now = 0 /\ tick = 1 /\ simPc = "weapon" /\ outbox = <<>>
           /\ snapshot = GameState(0, <<>>, <<>>, <<>>, <<>>)
           /\ clients = Clients
           /\ send = [c \in Clients |-> <<>>]
           /\ closed = [c \in Clients |-> FALSE]
           /\ rpc = [c \in Clients |-> "read"]
           /\ rloc = [c \in Clients |-> NoLocals]
           /\ wpc = [c \in Clients |-> "run"]
           /\ socket = [c \in Clients |-> <<>>]
           /\ crashed = NoPanic
           /\ hist = NoHistory

\* the next call of CollisionSystem.Update; the damage it applies and the
\* notifications it sends are added to hist.damage and hist.out
CollideStep ==
    /\ simPc \in {"weapon", "monster", "potion", "experience"}
    /\ LET W0 == World(<<50>>, 0, now)
           W  == CASE simPc = "weapon"  -> checkWeaponCollisions(W0)
                   [] simPc = "monster" -> checkMonsterPlayerCollisions(W0)
                   [] simPc = "potion"  -> checkPlayerPotionCollisions(W0)
                   [] OTHER             -> checkPlayerExperienceCollisions(W0)
       IN  /\ Install(W)
           /\ hist' = [hist EXCEPT !.damage = @ \o W.log, !.out = @ \o W.out]
    /\ simPc' = CASE simPc = "weapon"  -> "monster"
                  [] simPc = "monster" -> "potion"
                  [] simPc = "potion"  -> "experience"
                  [] OTHER             -> "end"
    /\ UNCHANGED <<mu, now, tick, outbox, snapshot, netVars, crashed>>

CollideSpec == CollideInit /\ [][CollideStep]_vars

---------------------------------------------------------------------------
(* The Player and Monster subsystems on their own: one call of              *)
(* PlayerSystem.Update and one of MonsterSystem.Update, as Game.run makes   *)
(* them at the start of a tick, on a world with a crowd of players, the     *)
(* first of them as the earlier ticks have left it, and a herd of monsters. *)

\* the populations: crowd the number of players; fate the first player's
\* health, level and experience (alive or dead; without experience, with
\* some, at the hundred); herd the number of monsters
UpkeepCases ==
    [crowd : {2, 26},
     fate : {<<100, 1, 0>>, <<0, 1, 0>>, <<0, 1, 1>>, <<0, 1, 9>>, <<0, 2, 16>>,
             <<0, 6, 57>>, <<50, 11, 99>>, <<50, 11, 100>>, <<0, 11, 109>>},
     herd : {0, 13, 59, 60}]

\* math/rand draws of one call: 4, 5, 6 or 7 orbs for a dead player
UpkeepStreams == {<<10>>, <<30>>, <<55>>, <<80>>}

\* the world of population cfg, built by the constructors
UpkeepWorld(cfg) ==
    LET W0 == [Players |-> <<>>, Monsters |-> <<>>, HealingPotions |-> <<>>,
               Experiences |-> <<>>, usedIDs |-> [t \in Classes |-> {}], ptr |-> 0,
               rnd |-> <<50, 50, 25>>, rk |-> 0, nano |-> 0, t |-> 0, tick |-> 1,
               id |-> 0, weapon |-> <<>>, out |-> <<>>, log |-> <<>>]
        W1 == FoldL(addNewPlayer, W0, [c \in 1..cfg.crowd |-> c])
        p1 == [Seasoned(W1.Players[1], W1.Players[1].X, cfg.fate[2], cfg.fate[3])
                  EXCEPT !.Health = cfg.fate[1]]
    IN  FoldL(LAMBDA W, k : spawnMonster(W), [W1 EXCEPT !.Players[1] = p1],
              [k \in 1..cfg.herd |-> k])

UpkeepInit ==
    \E cfg \in UpkeepCases :
       LET W == UpkeepWorld(cfg)
       IN  /\ Players = W.Players /\ Monsters = W.Monsters
           /\ HealingPotions = W.HealingPotions /\ Experiences = W.Experiences
           /\ usedIDs = W.usedIDs /\ allocs = W.ptr
           /\ cplayer = [c \in Clients |-> [ptr |-> W.Players[c].ptr, ID |-> W.Players[c].ID]]
           /\ mu = "sim" /\ now = 0 /\ tick = 1 /\ simPc = "player" /\ outbox = <<>>
           /\ snapshot = GameState(0, <<>>, <<>>, <<>>, <<>>)
           /\ clients = Clients
           /\ send = [c \in Clients |-> <<>>]
           /\ closed = [c \in Clients |-> FALSE]
           /\ rpc = [c \in Clients |-> "read"]
           /\ rloc = [c \in Clients |-> NoLocals]
           /\ wpc = [c \in Clients |-> "run"]
           /\ socket = [c \in Clients |-> <<>>]
           /\ crashed = NoPanic
           /\ hist = NoHistory

\* the next call of Game.run's tick: ps.Update, then ms.Update; the
\* notifications it sends are added to hist.out
UpkeepStep ==
    /\ simPc \in {"player", "monster"}
    /\ \E rnd \in UpkeepStreams :
          LET W0 == World(rnd, 0, now)
              W  == IF simPc = "player" THEN PlayerSystemUpdate(W0)
                    ELSE MonsterSystemUpdate(W0)
              sends == SelectSeq(W.out, LAMBDA o : o.kind = "send")
          IN  /\ Install(W)
              /\ cplayer' = [c \in Clients |->
                                IF \E k \in 1..Len(W.out) :
                                      W.out[k].kind = "clear" /\ W.out[k].c = c
                                THEN NoPlayer ELSE cplayer[c]]
              /\ hist' = [hist EXCEPT !.out = @ \o sends]
    /\ simPc' = IF simPc = "player" THEN "monster" ELSE "end"
    /\ UNCHANGED <<mu, now, tick, outbox, snapshot, clients, send, closed, rpc, rloc,
                   wpc, socket, crashed>>

UpkeepSpec == UpkeepInit /\ [][UpkeepStep]_vars

\* Game.run and Hub.run are goroutines the Go scheduler keeps running: a tick
\* that can take its next step takes it, and so does the Hub. Nothing forces a
\* viewer to send frames, or a writePump to get its socket written
FairSpec == Spec /\ WF_vars(Tick) /\ WF_vars(Hub)

\* the reader's handlers and its deferred function run on once entered,
\* ReadMessage fails once writePump has closed the connection, and a
\* writePump with something to write writes it or fails within writeWait
FaultSpec ==
    /\ FairSpec
    /\ \A c \in Clients :
          /\ WF_vars(Running /\ (\/ JoinAssign(c) \/ JoinReply(c) \/ WriteDirection(c)
                                 \/ Cleanup(c) \/ RemoveLocked(c)))
          /\ WF_vars(Running /\ wpc[c] = "done" /\ ReadError(c))
          /\ WF_vars(Writer(c))

---------------------------------------------------------------------------
(* Properties of the message paths *)

NotificationTypes ==
    {"playerHit", "monsterHit", "playerDeath", "potionCollected", "experienceCollected", "levelUp"}

\* Game.run is at a send of the running tick
SimAtSend == simPc = "tick" /\ outbox # <<>> /\ Head(outbox).kind = "send"

\* C1: the simulation performs no send into a connection's egress queue while
\* it holds the world mutex
C1_NoSendUnderMutex ==
    [][(SimStep /\ send' # send) => mu # "sim"]_vars

\* C1 (the case the claim excludes): the tick is stalled, mutex held, on a
\* queue that is full and that no writer drains
C1_TickStalledOnFullQueue ==
    /\ SimAtSend /\ mu = "sim"
    /\ ~ closed[Head(outbox).c]
    /\ Len(send[Head(outbox).c]) = SendCap
    /\ wpc[Head(outbox).c] = "done"

\* C2: a tick that has started and has not panicked finishes and releases the
\* world mutex (or the process panics), whatever the writers do
C2_TickFinishes ==
    (simPc = "tick" /\ crashed = NoPanic) ~> (mu = "free" \/ crashed # NoPanic)

\* C3: no task sends into an egress queue the Hub has closed (in Go such a
\* send panics with "send on closed channel")
C3_NoSendAfterClose == crashed # ClosedSend

\* C3 (the case): the Hub has closed the queue of a connection whose player is
\* still in the world
C3_ClosedWithLivePlayer ==
    \E c \in Clients : closed[c] /\ \E i \in 1..Len(Players) : Players[i].Client = c

\* C4: a Hub broadcast appends the message to the queue of every registered
\* connection with room, evicts every registered connection whose queue is
\* full (queue closed, connection removed from the registry), and leaves
\* unregistered connections alone
C4_Broadcast ==
    [][HubBroadcast =>
         \A c \in Clients :
            IF c \notin clients
            THEN send'[c] = send[c] /\ closed'[c] = closed[c] /\ c \notin clients'
            ELSE IF Len(send[c]) < SendCap
            THEN send'[c] = Append(send[c], snapshot) /\ c \in clients' /\ ~ closed'[c]
            ELSE send'[c] = send[c] /\ c \notin clients' /\ closed'[c]]_vars

\* C4 (the case): one broadcast evicted a connection and delivered to another
C4_EvictedAndDelivered == hist.evicted # {} /\ hist.delivered # {}

\* C5: in a connection's egress order no notification of a tick follows that
\* tick's gameState, and a tick's gameState is enqueued only once the tick has
\* no notification left to send
C5_NotificationsBeforeSnapshot ==
    \A c \in Clients :
       LET q == hist.enq[c]
       IN  \A i \in 1..Len(q) :
              q[i].type = "gameState" =>
                 /\ \A j \in 1..Len(q) :
                       (q[j].type \in NotificationTypes /\ q[j].tick = q[i].tick) => j < i
                 /\ q[i].tick = tick => \A k \in 1..Len(outbox) : outbox[k].kind # "send"

\* C5 (the case): a connection got notifications of a tick and then the
\* gameState of that tick
C5_NotifiedThenSnapshot ==
    \E c \in Clients :
       \E i, j \in 1..Len(hist.enq[c]) :
          /\ j < i
          /\ hist.enq[c][i].type = "gameState"
          /\ hist.enq[c][j].type \in NotificationTypes
          /\ hist.enq[c][j].tick = hist.enq[c][i].tick

\* the messages written to the socket of c (the close frame apart)
Written(c) == SelectSeq(socket[c], LAMBDA m : m.type # "close")

\* C6: what a writer has written to its socket is, in order, an initial part
\* of what was enqueued on its egress queue, and what is left is the queue
C6_WriterFifo ==
    \A c \in Clients :
       /\ Len(Written(c)) <= Len(hist.enq[c])
       /\ Written(c) = SubSeq(hist.enq[c], 1, Len(Written(c)))
       /\ send[c] = SubSeq(hist.enq[c], Len(Written(c)) + 1, Len(hist.enq[c]))

\* C6 (the case): a writer wrote a frame of several queued messages, of
\* different kinds
C6_BatchedFrame ==
    /\ hist.batch >= 2
    /\ \E c \in Clients : \E i \in 1..(Len(Written(c)) - 1) :
          Written(c)[i].type # Written(c)[i + 1].type

---------------------------------------------------------------------------
(* Properties of the world at the end of a tick *)

HealthOK(h) == 0 <= h.Health /\ h.Health <= h.MaxHealth /\ h.MaxHealth > 0

\* C7: every player and every monster has 0 <= health <= maxHealth and
\* maxHealth > 0
C7_HealthInRange ==
    /\ \A i \in 1..Len(Players) : HealthOK(Players[i])
    /\ \A i \in 1..Len(Monsters) : HealthOK(Monsters[i])

\* C7 (the case): a player that took damage, was healed by a potion and had
\* its maximum raised by a level-up
C7_DamagedHealedLevelled ==
    /\ hist.healed
    /\ \E i \in 1..Len(Players) :
          /\ DOMAIN Players[i].lastHitById # {}
          /\ Players[i].Level > 1 /\ Players[i].MaxHealth > 100

\* the bounding box of e is inside the arena
InArena(e) ==
    /\ ArenaMinX <= e.X - (e.Width \div 2) /\ e.X + (e.Width \div 2) <= ArenaMaxX
    /\ ArenaMinY <= e.Y - (e.Height \div 2) /\ e.Y + (e.Height \div 2) <= ArenaMaxY

\* C8: every player, weapon, monster, healing potion and experience orb has its
\* bounding box inside the arena
C8_AllInArena ==
    /\ \A i \in 1..Len(Players) :
          /\ InArena(Players[i])
          /\ \A k \in 1..Len(Players[i].Weapons) : InArena(Players[i].Weapons[k])
    /\ \A i \in 1..Len(Monsters) : InArena(Monsters[i])
    /\ \A i \in 1..Len(HealingPotions) : InArena(HealingPotions[i])
    /\ \A i \in 1..Len(Experiences) : InArena(Experiences[i])

\* the ids of the live entities of a class
LiveIDs(class) ==
    CASE class = "player"     -> { Players[i].ID : i \in 1..Len(Players) }
      [] class = "weapon"     -> UNION { { Players[i].Weapons[k].ID : k \in 1..Len(Players[i].Weapons) } :
                                         i \in 1..Len(Players) }
      [] class = "monster"    -> { Monsters[i].ID : i \in 1..Len(Monsters) }
      [] class = "potion"     -> { HealingPotions[i].ID : i \in 1..Len(HealingPotions) }
      [] class = "experience" -> { Experiences[i].ID : i \in 1..Len(Experiences) }

\* C9: while the process runs, the id set of every class is the set of ids of
\* the live entities of that class
C9_IdSetsAreLiveIds ==
    Running => \A class \in Classes : usedIDs[class] = LiveIDs(class)

\* C9 (the case): a player has been removed from the world
C9_PlayerRemoved == Running /\ hist.joins > 0 /\ Players = <<>>

\* C10: at least weaponHitCooldown elapsed between a damage application and
\* the one before it from the same source id to the same target
C10_HitCooldown == \A g \in hist.gaps : g >= weaponHitCooldown

\* C10 (the case): a source damaged a target again exactly weaponHitCooldown
\* after its last damage, having been kept from it at the tick in between
C10_HitAgainAtCooldown == weaponHitCooldown \in hist.gaps

---------------------------------------------------------------------------
(* Properties of deaths and drops *)

\* the objects reduced to health 0 in the tick that ran last
ZeroedNow == Zeroed(hist.damage)

\* C12: a player whose health was reduced to 0 never has health above 0 again,
\* and it is in the world no longer than to the end of the tick that reduced
\* it (the Player subsystem of the next tick removes it)
C12_ZeroedPlayerDestroyed ==
    \A i \in 1..Len(Players) :
       Players[i].ptr \in hist.zeroed =>
          Players[i].Health = 0 /\ Players[i].ptr \in ZeroedNow

\* C12 (the case): a player is at health 0 at the end of a tick
C12_PlayerAtZero ==
    \E i \in 1..Len(Players) : Players[i].Health = 0 /\ Players[i].ptr \in ZeroedNow

\* C13: a monster reported killed in a tick is not in that tick's snapshot
\* (its drops are resolved within the tick)
C13_KilledNotInSnapshot ==
    \A id \in hist.killed :
       \A k \in 1..Len(snapshot.monsters) : snapshot.monsters[k] # id

\* C13 (the case): a weapon hit of the last tick killed a monster
C13_KillReported == hist.killed # {}

---------------------------------------------------------------------------
(* Properties of the world mutex and of the registry *)

\* C14: from g.mu.Lock() to g.mu.Unlock() of a tick, whose three systems run
\* as one step in the order Player, Monster, Collision, no other task adds or
\* removes an entity or touches the id allocator
C14_TickHoldsWorld ==
    [][mu = "sim" =>
          /\ IDs(Players') = IDs(Players)
          /\ IDs(Monsters') = IDs(Monsters)
          /\ HealingPotions' = HealingPotions /\ Experiences' = Experiences
          /\ usedIDs' = usedIDs /\ allocs' = allocs]_vars

\* C14 (the case): the removePlayer of a reader waits for the mutex while a
\* tick holds it
C14_LeaveWaitsForTick ==
    \E c \in Clients : rpc[c] = "removePlayer" /\ mu = "sim"

\* C15: a reader writes a player's direction only while it holds the world
\* mutex, hence never while Game.run holds it
C15_DirectionUnderMutex ==
    [][\A c \in Clients : (WriteDirection(c) /\ Players' # Players) => mu # "sim"]_vars

\* C15 (the case): a reader is about to write a direction while a tick holds
\* the mutex
C15_DirectionDuringTick ==
    \E c \in Clients : rpc[c] = "direction" /\ mu = "sim" /\ cplayer[c] # NoPlayer

\* C17: a closed queue belongs to no registered connection (so that no queue
\* is closed twice), and an unregister of a connection that is not in the
\* registry changes neither the registry nor any queue
C17_UnregisterIdempotent ==
    /\ [](\A c \in Clients : closed[c] => c \notin clients)
    /\ [][\A c \in Clients :
             (ReadError(c) /\ c \notin clients) => (clients' = clients /\ closed' = closed)]_vars

\* C17 (the case): a connection evicted by the last broadcast has since been
\* unregistered by its reader
C17_UnregisteredAfterEviction ==
    \E c \in hist.evicted : rpc[c] \in {"cleanup", "removePlayer", "done"}

\* C20: the removal of the attached player at the end of a reader leaves the
\* experience orbs as they are, releases the player's id, takes the player out
\* of the player collection and clears the connection's back-reference
C20_LeaveRemovesPlayer ==
    [][\A c \in Clients :
          WorldLeave(c) =>
             /\ Experiences' = Experiences
             /\ cplayer[c].ID \notin usedIDs'["player"]
             /\ \A i \in 1..Len(Players') : Players'[i].ptr # cplayer[c].ptr
             /\ Len(Players') = Len(Players) - 1
             /\ cplayer'[c] = NoPlayer]_vars

\* C20 (the case): a player holding experience was removed by the end of its
\* reader
C20_LeftWithExperience ==
    \E k \in 1..Len(hist.left) : hist.left[k] > 0

---------------------------------------------------------------------------
(* Inbound frames (FrameSpec)                                               *)

\* C16: a "join" frame read on a connection that has a player attached
\* creates no player, allocates no id, sends no "joined" message and leaves
\* the world, the registry and the connection as they were.
C16_SecondJoinNoOp ==
    [][\A c \in Clients :
          (FrameRead(c, JoinFrame) /\ cplayer[c] # NoPlayer) =>
             /\ Players' = Players /\ Monsters' = Monsters
             /\ HealingPotions' = HealingPotions /\ Experiences' = Experiences
             /\ usedIDs' = usedIDs /\ allocs' = allocs
             /\ send' = send /\ cplayer' = cplayer
             /\ clients' = clients /\ closed' = closed /\ rpc' = rpc]_vars

\* a "join" frame was read on a connection with a player attached
C16_SecondJoinRead == hist.rejoin /\ \E c \in Clients : cplayer[c] # NoPlayer

\* the player attached to connection c, as the world holds it
Attached(c) == { i \in 1..Len(Players) : Players[i].ptr = cplayer[c].ptr }

\* C18: the direction of an attached player in the world is the number of
\* the last "direction" frame read on its connection since it joined, and a
\* tick leaves the direction of every player it keeps as it was, at a wall
\* as elsewhere.
C18_DirectionIsLastReceived ==
    /\ [](\A c \in Clients :
            (cplayer[c] # NoPlayer /\ hist.steer[c].k = "num") =>
               \A i \in Attached(c) : Players[i].Direction = hist.steer[c].n)
    /\ [][tick' = tick + 1 =>
            \A i \in 1..Len(Players), j \in 1..Len(Players') :
               Players[i].ptr = Players'[j].ptr =>
                  Players'[j].Direction = Players[i].Direction]_vars

\* a player steered left and then up stands clamped at the top wall, left of
\* where it joined, still heading up
C18_ClampedAfterTwoTurns ==
    \E c \in Clients :
       /\ cplayer[c] # NoPlayer /\ hist.steer[c] = JNum(Up)
       /\ \E i \in Attached(c) :
             /\ Players[i].Y = ArenaMinY + Players[i].Height \div 2
             /\ Players[i].X < 100 * PosScale
             /\ Players[i].Direction = Up

\* C19: a frame that is not JSON, has no string type or an unknown one, is
\* a "direction" without a number, or is over the read limit, is dropped:
\* the reader goes on reading, the connection stays registered and open, its
\* player stays attached, the world is unchanged and nothing panics.
C19_BadFrameDropped ==
    [][\A c \in Clients : \A f \in BadFrames :
          FrameRead(c, f) =>
             /\ rpc'[c] = "read" /\ clients' = clients /\ closed' = closed
             /\ cplayer' = cplayer /\ send' = send /\ crashed' = NoPanic
             /\ Players' = Players /\ Monsters' = Monsters
             /\ HealingPotions' = HealingPotions /\ Experiences' = Experiences
             /\ usedIDs' = usedIDs /\ allocs' = allocs]_vars

\* such a frame was read on a connection with a player attached
C19_BadFrameRead == hist.dropped

---------------------------------------------------------------------------
(* Two players (DuelSpec)                                                   *)

\* C11: a source that overlaps a player in a tick, and whose own last damage
\* to that player is absent or a full cooldown old, damages it in that tick:
\* no record left by another source (a monster for a weapon, a weapon for a
\* monster) holds it back.
C11_NoCrossSuppression == hist.suppressed = {}

\* a player was damaged by two distinct sources in one tick
C11_TwoSourcesInOneTick ==
    \E j, k \in 1..Len(hist.damage) :
       /\ hist.damage[j].tgt = hist.damage[k].tgt
       /\ ClassKey(hist.damage[j]) # ClassKey(hist.damage[k])
       /\ \E i \in 1..Len(Players) : Players[i].ptr = hist.damage[j].tgt

---------------------------------------------------------------------------
(* Leaves, faults and evictions                                             *)

\* the experience of the player attached to connection c, 0 without one
ExperienceOf(c) ==
    LET k == PlayerIndex(Players, cplayer[c].ID)
    IN  IF cplayer[c] = NoPlayer \/ k = 0 THEN 0 ELSE Players[k].Experience

\* C21: the removal of the player of a killed connection spawns experience
\* orbs when that player holds experience.
C21_LeaveSpawnsOrbs ==
    [][\A c \in Clients :
          (WorldLeave(c) /\ ExperienceOf(c) > 0) => Len(Experiences') > Len(Experiences)]_vars

\* a connection that can be killed has a player holding experience
C21_AttachedWithExperience ==
    \E c \in Clients : rpc[c] = "read" /\ ExperienceOf(c) > 0 /\ hist.faults < MaxFaults

\* C22: after a fault of a connection (its reader has left its loop or its
\* writer has returned), the connection is eventually out of the registry
\* with its queue closed and no player of it in the world.
C22_FaultCleansUp ==
    \A c \in Clients :
       (rpc[c] \in {"cleanup", "removePlayer", "done"} \/ wpc[c] = "done")
          ~> (/\ c \notin clients /\ closed[c]
              /\ \A i \in 1..Len(Players) : Players[i].Client # c)

\* the reader of a connection with a player in the world has left its loop
C22_FaultWithPlayer ==
    \E c \in Clients :
       /\ rpc[c] \in {"cleanup", "removePlayer"}
       /\ \E i \in 1..Len(Players) : Players[i].Client = c

\* C23: once the Hub has evicted a connection for a full queue, nothing but
\* the close frame is written to its socket: the messages the queue held at
\* the eviction are not delivered.
C23_EvictedQueueDropped ==
    [][\A c \in hist.evicted :
          \A k \in (Len(socket[c]) + 1)..Len(socket'[c]) : socket'[c][k].type = "close"]_vars

\* a connection evicted by the last broadcast has messages in its queue and
\* a running writer
C23_EvictedWithBacklog ==
    \E c \in hist.evicted : closed[c] /\ Len(send[c]) = SendCap /\ wpc[c] = "run"

---------------------------------------------------------------------------
(* The join acknowledgment                                                  *)

\* C24: a "joined" message is enqueued only to the connection whose join
\* created the player it names, and in that connection's queue it comes
\* before every gameState snapshot that contains that player.
C24_JoinedBeforeSnapshot ==
    \A c \in Clients :
       /\ \A k \in 1..Len(hist.enq[c]) :
             hist.enq[c][k].type = "joined" =>
                /\ hist.enq[c][k].playerID = rloc[c].ID
                /\ \A d \in Clients \ {c} : \A j \in 1..Len(hist.enq[d]) :
                      hist.enq[d][j].type # "joined"
                         \/ hist.enq[d][j].playerID # hist.enq[c][k].playerID
       /\ \A k \in 1..Len(hist.enq[c]) :
             (/\ hist.enq[c][k].type = "gameState"
              /\ \E i \in 1..Len(hist.enq[c][k].players) :
                    hist.enq[c][k].players[i] = rloc[c].ID) =>
                \E j \in 1..(k - 1) : hist.enq[c][j].type = "joined"

\* a connection has been sent its "joined" message and then a snapshot with
\* its player
C24_JoinedThenSnapshot ==
    \E c \in Clients : \E j, k \in 1..Len(hist.enq[c]) :
       /\ j < k /\ hist.enq[c][j].type = "joined"
       /\ hist.enq[c][k].type = "gameState"
       /\ \E i \in 1..Len(hist.enq[c][k].players) :
             hist.enq[c][k].players[i] = hist.enq[c][j].playerID

---------------------------------------------------------------------------
(* The monster population                                                   *)

\* C27: at the end of a tick (the collision steps remove no monster and no
\* player) the world holds at least min(2 x |players| + 10, 60) monsters.
C27_PopulationTarget ==
    [][tick' = tick + 1 =>
          \/ Len(Monsters') >= Len(Players') * playerMasterRatio + baseMonsterAmount
          \/ Len(Monsters') >= maxMonsterAmount]_vars

\* a monster killed in the last tick is still in the world
C27_DeadMonsterInWorld ==
    \E i \in 1..Len(Monsters) : Monsters[i].Health = 0 /\ Monsters[i].ID \in hist.killed

---------------------------------------------------------------------------
(* The collision subsystem (CollideSpec)                                    *)

\* what the orb step has sent, in order: the types, connections and player
\* ids of its levelUp and experienceCollected notifications
OrbNotes(out) ==
    LET notes == SelectSeq(out, LAMBDA o : o.kind = "send"
                                   /\ o.m.type \in {"levelUp", "experienceCollected"})
    IN  [k \in 1..Len(notes) |-> <<notes[k].m.type, notes[k].c, notes[k].m.playerID>>]

\* C25: every player's experience is at least 0 and below level x 10, and
\* its level at least 1, before and after every orb collection.
C25_ExperienceBelowThreshold ==
    \A i \in 1..Len(Players) :
       /\ Players[i].Experience >= 0
       /\ Players[i].Experience < Players[i].Level * 10
       /\ Players[i].Level >= 1

\* an orb has been collected by a player that it took to the threshold
C25_CollectedAtThreshold ==
    /\ simPc = "end"
    /\ Len(OrbNotes(hist.out)) = 2
    /\ OrbNotes(hist.out)[1][1] = "levelUp"

\* C26: in the orb step, the player that collects an orb reaching
\* level x 10 goes up exactly one level (level +1, damage +1, maxHealth +10,
\* health = maxHealth, experience 0) and is sent one levelUp and then the
\* experienceCollected; below the threshold it is sent experienceCollected
\* alone, its experience grows by the amount and its level, damage,
\* maxHealth and health are unchanged.
C26_OneLevelTransition ==
    [][(simPc = "experience" /\ simPc' = "end") =>
          \A k \in 1..Len(Experiences) :
             LET e == Experiences[k]
                 i == FirstCollector(World(<<50>>, 0, now), e)
             IN  i # 0 =>
                 LET p == Players[i]
                     q == Players'[i]
                 IN  IF p.Experience + e.Amount >= p.Level * 10
                     THEN /\ q.Level = p.Level + 1 /\ q.Damage = p.Damage + 1
                          /\ q.MaxHealth = p.MaxHealth + 10 /\ q.Health = q.MaxHealth
                          /\ q.Experience = 0
                          /\ OrbNotes(hist'.out) =
                                <<<<"levelUp", p.Client, p.ID>>,
                                  <<"experienceCollected", p.Client, p.ID>>>>
                          /\ \A n \in 1..Len(hist'.out) :
                                hist'.out[n].m.type = "levelUp" =>
                                   hist'.out[n].m.level = p.Level + 1
                     ELSE /\ q.Level = p.Level /\ q.Damage = p.Damage
                          /\ q.MaxHealth = p.MaxHealth /\ q.Health = p.Health
                          /\ q.Experience = p.Experience + e.Amount
                          /\ OrbNotes(hist'.out) = <<<<"experienceCollected", p.Client, p.ID>>>>]_vars

\* the spec's example: a level 1 player with experience 5 has collected an
\* orb of 5 and is at level 2 with damage 11 and health 110 of 110
C26_LevelTwoAtFullHealth ==
    /\ simPc = "end"
    /\ OrbNotes(hist.out) = <<<<"levelUp", 1, Players[1].ID>>,
                              <<"experienceCollected", 1, Players[1].ID>>>>
    /\ \E n \in 1..Len(hist.out) :
          hist.out[n].m.type = "experienceCollected" /\ hist.out[n].m.amount = 5
    /\ Players[1].Level = 2 /\ Players[1].Damage = 11
    /\ Players[1].Health = 110 /\ Players[1].MaxHealth = 110 /\ Players[1].Experience = 0

\* C28: the overlap test holds of two entities exactly when
\* |Ax - Bx| < (Aw + Bw)/2 and |Ay - By| < (Ah + Bh)/2 (boxes that only touch
\* do not collide), for every item and player the potion step and the orb
\* step apply it to.
C28_StrictOverlap ==
    \A items \in {HealingPotions, Experiences} :
       (IF items = HealingPotions THEN simPc = "potion" ELSE simPc = "experience") =>
          \A k \in 1..Len(items) : \A i \in 1..Len(Players) :
             LET a == items[k]
                 b == Players[i]
             IN  CheckCollision(a, b)
                    <=> /\ 2 * (a.X - b.X) < a.Width + b.Width
                        /\ 2 * (b.X - a.X) < a.Width + b.Width
                        /\ 2 * (a.Y - b.Y) < a.Height + b.Height
                        /\ 2 * (b.Y - a.Y) < a.Height + b.Height

\* the orb step is about to run on an orb whose box touches the first
\* player's box along an edge and meets no other player's
C28_OrbEdgeToEdge ==
    /\ simPc = "experience" /\ Len(Experiences) = 1
    /\ 2 * (Experiences[1].X - Players[1].X) = Experiences[1].Width + Players[1].Width
    /\ Experiences[1].Y = Players[1].Y
    /\ Players[2].X - Players[1].X > Players[1].Width + Experiences[1].Width

\* C29: in the potion step and in the orb step, each item whose box meets at
\* least one player's is consumed by exactly one player, the first such
\* player in the order of the player collection: that player gets the effect
\* and the one notification, the item leaves the world and its id is
\* released; an item that meets no player stays as it is, and no other
\* player changes.
C29_FirstOverlapperCollects ==
    [][\A kind \in {"potion", "experience"} :
          (simPc = kind /\ simPc' # kind) =>
             LET items == IF kind = "potion" THEN HealingPotions ELSE Experiences
                 kept == IF kind = "potion" THEN HealingPotions' ELSE Experiences'
                 sent == SubSeq(hist'.out, Len(hist.out) + 1, Len(hist'.out))
                 Over(e) == {i \in 1..Len(Players) : CheckCollision(e, Players[i])}
                 Taker(e) == CHOOSE i \in Over(e) : \A j \in Over(e) : i <= j
             IN  /\ \A k \in 1..Len(items) :
                       LET e == items[k]
                           about == {n \in 1..Len(sent) :
                                        /\ sent[n].m.type = kind \o "Collected"
                                        /\ e.ID = IF kind = "potion" THEN sent[n].m.potionID
                                                  ELSE sent[n].m.experienceID}
                       IN  IF Over(e) = {}
                           THEN /\ \E j \in 1..Len(kept) : kept[j] = e
                                /\ e.ID \in usedIDs'[kind]
                                /\ about = {}
                           ELSE LET p == Players[Taker(e)]
                                    q == Players'[Taker(e)]
                                IN  /\ \A j \in 1..Len(kept) : kept[j].ID # e.ID
                                    /\ e.ID \in usedIDs[kind] /\ e.ID \notin usedIDs'[kind]
                                    /\ Cardinality(about) = 1
                                    /\ \A n \in about : /\ sent[n].c = p.Client
                                                        /\ sent[n].m.playerID = p.ID
                                                        /\ sent[n].m.amount = e.Amount
                                    /\ IF kind = "potion"
                                       THEN q.Health = IF p.Health + e.Amount > p.MaxHealth
                                                       THEN p.MaxHealth ELSE p.Health + e.Amount
                                       ELSE \/ q.Experience = p.Experience + e.Amount
                                            \/ q.Level = p.Level + 1
                 /\ Len(Players') = Len(Players)
                 /\ \A i \in 1..Len(Players) :
                       (\A k \in 1..Len(items) :
                           Over(items[k]) = {} \/ Taker(items[k]) # i) =>
                          Players'[i] = Players[i]]_vars

\* both players stood on the potion and on the orb, and the first player of
\* the collection has collected both
C29_FirstOfTwoCollected ==
    /\ simPc = "end"
    /\ Players[1].X = Players[2].X /\ Players[1].Y = Players[2].Y
    /\ HealingPotions = <<>> /\ Experiences = <<>>
    /\ \E n \in 1..Len(hist.out) : /\ hist.out[n].m.type = "potionCollected"
                                    /\ hist.out[n].m.playerID = Players[1].ID
    /\ \E n \in 1..Len(hist.out) : /\ hist.out[n].m.type = "experienceCollected"
                                    /\ hist.out[n].m.playerID = Players[1].ID
    /\ Players[2].Experience = 0 /\ Players[2].Level = 1

\* C30: the collision steps run in the fixed order 1 to 5 within a tick:
\* every weapon-on-player hit is resolved before any weapon-on-monster hit,
\* that before any monster-on-player hit, and the notifications of the hits
\* precede those of the potions, which precede those of the orbs.
C30_FixedStepOrder ==
    LET OnPlayer(d) == \E i \in 1..Len(Players) : Players[i].ptr = d.tgt
        Step(d) == IF d.cls = "monster" THEN 3 ELSE IF OnPlayer(d) THEN 1 ELSE 2
        Part(o) == CASE o.m.type \in {"playerHit", "monsterHit"} -> 3
                     [] o.m.type = "potionCollected" -> 4
                     [] OTHER -> 5
    IN  /\ \A a, b \in 1..Len(hist.damage) :
              a < b => Step(hist.damage[a]) <= Step(hist.damage[b])
        /\ \A a, b \in 1..Len(hist.out) :
              a < b => Part(hist.out[a]) <= Part(hist.out[b])

\* the weapon step has resolved a hit on a monster and a hit on a player
C30_WeaponHitsOfBothKinds ==
    /\ simPc = "monster"
    /\ \E a, b \in 1..Len(hist.damage) :
          /\ hist.damage[a].cls = "weapon" /\ hist.damage[b].cls = "weapon"
          /\ \E i \in 1..Len(Players) : Players[i].ptr = hist.damage[a].tgt
          /\ \E i \in 1..Len(Monsters) : Monsters[i].ptr = hist.damage[b].tgt

\* C31: in the weapon pass a weapon never damages its own owner; each hit of
\* a weapon on another player Q takes the owner's damage off Q's health,
\* stopping at 0, and enqueues one and the same playerHit notification to
\* the owner's connection and to Q's; a weapon whose box meets Q's and that
\* Q's cooldown admits hits Q exactly once.
C31_WeaponHitsOthers ==
    [][(simPc = "weapon" /\ simPc' = "monster") =>
          LET log == SubSeq(hist'.damage, Len(hist.damage) + 1, Len(hist'.damage))
              sent == SubSeq(hist'.out, Len(hist.out) + 1, Len(hist'.out))
              OnPlayer(d) == d.cls = "weapon" /\ \E i \in 1..Len(Players) : Players[i].ptr = d.tgt
              hits == SelectSeq(log, OnPlayer)
              notes == SelectSeq(sent, LAMBDA o : o.m.type = "playerHit")
              Owner(d) == CHOOSE i \in 1..Len(Players) :
                             \E wi \in 1..Len(Players[i].Weapons) : Players[i].Weapons[wi].ID = d.src
              Target(d) == CHOOSE i \in 1..Len(Players) : Players[i].ptr = d.tgt
              Before(k) == LET earlier == {j \in 1..(k - 1) : hits[j].tgt = hits[k].tgt}
                           IN  IF earlier = {} THEN Players[Target(hits[k])].Health
                               ELSE hits[CHOOSE j \in earlier : \A l \in earlier : l <= j].left
          IN  /\ Len(notes) = 2 * Len(hits)
              /\ \A k \in 1..Len(hits) :
                    LET P == Players[Owner(hits[k])]
                        Q == Players[Target(hits[k])]
                    IN  /\ P.ID # Q.ID
                        /\ hits[k].left = IF Before(k) > P.Damage THEN Before(k) - P.Damage ELSE 0
                        /\ notes[2 * k - 1].c = P.Client /\ notes[2 * k].c = Q.Client
                        /\ notes[2 * k - 1].m = notes[2 * k].m
                        /\ notes[2 * k].m.from = P.ID /\ notes[2 * k].m.to = Q.ID
                        /\ notes[2 * k].m.damage = P.Damage
                        /\ notes[2 * k].m.remainingHealth = hits[k].left
              /\ \A i, q \in 1..Len(Players) : \A wi \in 1..Len(Players[i].Weapons) :
                    LET w == Players[i].Weapons[wi]
                        n == Cardinality({k \in 1..Len(hits) :
                                             hits[k].src = w.ID /\ hits[k].tgt = Players[q].ptr})
                    IN  n = IF /\ q # i /\ CheckCollision(w, Players[q])
                               /\ CheckHitCooldown(Players[q], w.ID, now)
                            THEN 1 ELSE 0
              /\ \A q \in 1..Len(Players) :
                    Players'[q].Health =
                       LET mine == {k \in 1..Len(hits) : hits[k].tgt = Players[q].ptr}
                       IN  IF mine = {} THEN Players[q].Health
                           ELSE hits[CHOOSE k \in mine : \A l \in mine : l <= k].left]_vars

\* the weapon pass has brought a player from health 5 to 0 with a hit of 10,
\* reported to both connections
C31_HitClampedAtZero ==
    /\ simPc = "monster"
    /\ \E a, b \in 1..Len(hist.out) :
          /\ a < b /\ hist.out[a].m = hist.out[b].m /\ hist.out[a].c # hist.out[b].c
          /\ hist.out[a].m.type = "playerHit" /\ hist.out[a].m.damage = 10
          /\ hist.out[a].m.remainingHealth = 0
          /\ \E q \in 1..Len(Players) :
                Players[q].ID = hist.out[a].m.to /\ Players[q].Health = 0

C38_DeadPlayerDealsNoDamage ==
    \A a, b \in 1..Len(hist.damage) :
       (a < b /\ hist.damage[a].left = 0) =>
          \A q \in 1..Len(Players) :
             Players[q].ptr = hist.damage[a].tgt =>
                \A wi \in 1..Len(Players[q].Weapons) :
                   ~ (/\ hist.damage[b].cls = "weapon"
                      /\ hist.damage[b].src = Players[q].Weapons[wi].ID)

\* the weapon pass has left a player at health 0 whose weapon lies on
\* another player
C38_DeadPlayerInReach ==
    /\ simPc = "monster"
    /\ \E q, o \in 1..Len(Players) : \E wi \in 1..2 :
          /\ q # o /\ Players[q].Health = 0
          /\ \E a \in 1..Len(hist.damage) :
                hist.damage[a].tgt = Players[q].ptr /\ hist.damage[a].left = 0
          /\ CheckCollision(Players[q].Weapons[wi], Players[o])

---------------------------------------------------------------------------
(* The Player and Monster subsystems (UpkeepSpec)                           *)

\* C33: when the Player subsystem collects a dead player, it enqueues one
\* playerDeath to the player's connection, spawns n orbs, 4 <= n <= 7, each
\* carrying floor((experience/2)/n), releases the player's id, takes the
\* player out of the player collection and clears its connection's
\* back-reference.
C33_DeadPlayerCollected ==
    [][(simPc = "player" /\ simPc' = "monster") =>
          \A i \in 1..Len(Players) :
             LET p == Players[i]
                 sent == SubSeq(hist'.out, Len(hist.out) + 1, Len(hist'.out))
                 orbs == SubSeq(Experiences', Len(Experiences) + 1, Len(Experiences'))
             IN  (p.Health = 0 /\ \A j \in 1..Len(Players) : j # i => Players[j].Health > 0) =>
                    /\ Cardinality({k \in 1..Len(sent) :
                                       /\ sent[k].m.type = "playerDeath"
                                       /\ sent[k].c = p.Client
                                       /\ sent[k].m.playerID = p.ID}) = 1
                    /\ Len(orbs) \in 4..7
                    /\ \A k \in 1..Len(orbs) :
                          orbs[k].Amount = (p.Experience \div 2) \div Len(orbs)
                    /\ p.ID \notin usedIDs'["player"]
                    /\ \A j \in 1..Len(Players') : Players'[j].ptr # p.ptr
                    /\ Len(Players') = Len(Players) - 1
                    /\ cplayer'[p.Client] = NoPlayer]_vars

\* the Player subsystem has collected a dead player and spawned no orb
C33_DeadWithoutOrbs ==
    /\ simPc = "monster"
    /\ cplayer[1] = NoPlayer
    /\ \E k \in 1..Len(hist.out) : hist.out[k].m.type = "playerDeath" /\ hist.out[k].c = 1
    /\ Experiences = <<>>

\* C34: every player in the world holds exactly two weapons, each with the
\* player's id as owner id and that of no other player; the ids of the
\* weapons in the world are pairwise distinct; the weapons in the world are
\* those of the players in it, so that a weapon goes with its owner.
C34_TwoWeaponsEach ==
    LET held == {<<i, wi>> : i \in 1..Len(Players), wi \in 1..2}
    IN  /\ \A i \in 1..Len(Players) :
              /\ Len(Players[i].Weapons) = 2
              /\ \A wi \in 1..2 : \A j \in 1..Len(Players) :
                    (Players[i].Weapons[wi].OwnerID = Players[j].ID) <=> (i = j)
        /\ \A a, b \in held :
              Players[a[1]].Weapons[a[2]].ID = Players[b[1]].Weapons[b[2]].ID => a = b
        /\ \A a \in held : Players[a[1]].Weapons[a[2]].ID \in usedIDs["weapon"]

\* a dead player has been taken out of a crowd of 26 with its weapons
C34_OwnerGoneFromCrowd ==
    /\ simPc = "monster" /\ Len(Players) = 25
    /\ cplayer[1] = NoPlayer
    /\ Cardinality(usedIDs["weapon"]) = 52

\* C36: a player's damage and maxHealth change only at a level transition:
\* in every state damage = 10 + (level - 1) and
\* maxHealth = 100 + 10 x (level - 1)
C36_StatsFollowLevel ==
    \A i \in 1..Len(Players) :
       /\ Players[i].Damage = 10 + (Players[i].Level - 1)
       /\ Players[i].MaxHealth = 100 + 10 * (Players[i].Level - 1)

\* the Player subsystem has updated a player of level 11 whose experience
\* is 100
C36_UpdatedAtHundred ==
    /\ simPc = "monster"
    /\ Players[1].Level = 11 /\ Players[1].Experience = 100 /\ Players[1].Health = 50

\* C40: the world never holds more than maxMonsterAmount (60) monsters: the
\* spawn loop of the Monster subsystem stops at 60 whatever the population
\* target, and nothing else adds a monster
C40_MonsterCap ==
    Len(Monsters) <= maxMonsterAmount

\* the Monster subsystem has filled an empty world of 26 players, whose
\* population target is 62, and has stopped at the cap
C40_CapBelowTarget ==
    /\ simPc = "end"
    /\ Len(Monsters) = maxMonsterAmount
    /\ Len(Players) * playerMasterRatio + baseMonsterAmount > maxMonsterAmount
    /\ allocs = Len(Players) + maxMonsterAmount

---------------------------------------------------------------------------
(* The writer after the close of its queue (FaultSpec)                      *)

\* C35: once the Hub has closed a connection's egress queue, the writer
\* writes the messages still buffered in it, then the close frame, and
\* terminates: what it writes while messages are buffered is those messages,
\* what it writes once the queue is empty is the close frame, with which it
\* ends; it writes nothing after it has ended; and, the tasks being
\* scheduled fairly, it does end.
C35_WriterEndsAfterClose ==
    /\ [][\A c \in Clients :
            (closed[c] /\ wpc[c] = "run" /\ socket'[c] # socket[c]) =>
               IF send[c] # <<>>
               THEN socket'[c] = socket[c] \o send[c] /\ wpc'[c] = "run"
               ELSE socket'[c] = Append(socket[c], [type |-> "close"]) /\ wpc'[c] = "done"]_vars
    /\ [][\A c \in Clients : wpc[c] = "done" => socket'[c] = socket[c]]_vars
    /\ \A c \in Clients : (closed[c] /\ wpc[c] = "run") ~> (wpc[c] = "done")

\* a writer has written its backlog and then the close frame
C35_BacklogThenCloseFrame ==
    \E c \in Clients :
       /\ closed[c] /\ wpc[c] = "done" /\ Len(socket[c]) >= 2
       /\ socket[c][Len(socket[c])].type = "close"

---------------------------------------------------------------------------
(* The reader and the back-reference (Spec)                                 *)

\* C37: a reader never dereferences a nil c.player, neither in the direction
\* handler nor in the deferred cleanup
C37_NoNilDereference == crashed # NilDeref

\* a reader's cleanup has read c.player.ID of an attached player and is
\* about to call removePlayer
C37_CleanupOfAttached ==
    \E c \in Clients : rpc[c] = "removePlayer" /\ cplayer[c].ID = rloc[c].ID /\ mu = "free"

\* C39: the binding of connections and players is consistent in every
\* state in which no tick is running (a running tick has removed its dead
\* players from the collection at once and clears their back-references in
\* the steps that follow): a connection has at most one player in the
\* world, and a connection's c.player, when not nil, is a player of the
\* world whose Client is that connection
C39_BindingConsistent ==
    mu = "free" =>
       \A c \in Clients :
          /\ Cardinality({i \in 1..Len(Players) : Players[i].Client = c}) <= 1
          /\ cplayer[c] # NoPlayer =>
                \E i \in 1..Len(Players) :
                   Players[i].ptr = cplayer[c].ptr /\ Players[i].Client = c

\* a join handler is about to assign c.player the player it has added
C39_JoinBeforeAssign ==
    \E c \in Clients : rpc[c] = "assign" /\ cplayer[c] = NoPlayer /\ rloc[c].ptr # 0
====
